---- MODULE Spec2Model ----
(***************************************************************************)
(* A model of the floating-window layout engine WindowingState             *)
(* (src/src/windowing_area/layout.rs) and of the per-frame protocol that   *)
(* WindowingArea / WindowingContext drive it with                          *)
(* (src/src/windowing_area.rs).                                            *)
(*                                                                         *)
(* Numbers.  The engine keeps logical coordinates as f32 and device-pixel  *)
(* coordinates as i32.  A logical value is held here as an integer that    *)
(* counts HALF logical pixels (the logical value 100.5 is 201), which is   *)
(* exact for every value the model produces with hidpi_factor 1 or 2 and   *)
(* keeps rectangles that are off the device-pixel grid representable.      *)
(* A device-pixel value is held as the integer itself.  WinId(n) is n;     *)
(* Vec index i is sequence index i + 1.  Option<T> is <<>> (None) or       *)
(* <<v>> (Some(v)).                                                        *)
(***************************************************************************)
EXTENDS Integers, Sequences, FiniteSets, TLC

VARIABLES
    area_size,              \* WindowingState::area_size, [f32; 2] as <<w, h>>
    hidpi_factor,           \* WindowingState::hidpi_factor
    window_states,          \* Vec<Option<WindowState>>
    window_z_orders,        \* Vec<u32>: z rank of each WinId
    bottom_to_top_list,     \* Vec<WinId>: index = z rank
    frame_metrics,          \* FrameMetrics
    maybe_dragging_window,  \* Option<DraggingState>
    next_auto_position,     \* [f32; 2] as <<x, y>>
    panicked,               \* a panic (expect / index out of bounds) has unwound
    last_call,              \* history: the operation that produced this state
    drag_origin,            \* history: the dragged window as its drag found it
    widget                  \* WindowingArea's widget State and the frame history

engine_vars == <<area_size, hidpi_factor, window_states, window_z_orders,
                 bottom_to_top_list, frame_metrics, maybe_dragging_window,
                 next_auto_position, panicked>>

vars == <<area_size, hidpi_factor, window_states, window_z_orders,
          bottom_to_top_list, frame_metrics, maybe_dragging_window,
          next_auto_position, panicked, last_call, drag_origin, widget>>

----------------------------------------------------------------------------
(* Option<T> *)

None == <<>>

Some(v) == <<v>>

IsSome(o) == o # <<>>

Unwrap(o) == o[1]

----------------------------------------------------------------------------
(* f32 / i32 arithmetic on the half-logical-pixel representation *)

Max(a, b) == IF a >= b THEN a ELSE b

Min(a, b) == IF a <= b THEN a ELSE b

Abs(a) == IF a >= 0 THEN a ELSE -a

\* The f32 literal n (a whole number of logical pixels).
Lg(n) == 2 * n

\* the conversion with the cast's truncation in place of round()
RoundPx_truncates(v, hidpi) ==
    LET n == v * hidpi
    IN  IF n >= 0 THEN n \div 2 ELSE -((-n) \div 2)

\* (v * hidpi_factor).round() as i32: f32::round rounds half away from zero.
RoundPx(v, hidpi) ==
    LET n == v * hidpi
    IN  IF n >= 0 THEN (n + 1) \div 2 ELSE -((1 - n) \div 2)

\* (v * hidpi_factor) as i32: the cast truncates toward zero.
TruncPx(v, hidpi) ==
    LET n == v * hidpi
    IN  IF n >= 0 THEN n \div 2 ELSE -((-n) \div 2)

\* px as f32 / hidpi_factor
PxToLg(px, hidpi) == (2 * px) \div hidpi

----------------------------------------------------------------------------
(* dim.rs: Rect, DimRange;  snapping.rs: SnapSegment, Anchor *)

Rect(x, y, w, h) == [x |-> x, y |-> y, w |-> w, h |-> h]

\* Dir::dim_from_point
PosDim(r, d) == IF d = "Horizontal" THEN r.x ELSE r.y

\* Dir::dim_from_size
SizeDim(r, d) == IF d = "Horizontal" THEN r.w ELSE r.h

PerpendicularDir(d) == IF d = "Horizontal" THEN "Vertical" ELSE "Horizontal"

\* DimRange::new that keeps the order of its arguments
DimRange_new_unordered(a, b) == [lower |-> a, upper |-> b]

DimRange_new(a, b) ==
    IF a > b THEN [lower |-> b, upper |-> a] ELSE [lower |-> a, upper |-> b]

\* overlaps_with on closed ranges: a shared endpoint counts
overlaps_with_closed(self, other) ==
    self.lower <= other.upper /\ other.lower <= self.upper

overlaps_with(self, other) == self.lower < other.upper /\ other.lower < self.upper

\* Rect::range::<D>
RectRange(r, d) == DimRange_new(PosDim(r, d), PosDim(r, d) + SizeDim(r, d))

SnapSegment_new(perpendicular_dim, dim_range) ==
    [perpendicular_dim |-> perpendicular_dim, dim_range |-> dim_range]

Anchor == {"None", "LowerEdge", "UpperEdge", "LowerAndUpperEdges"}

HitTest == {"Content", "TitleBarOrDragArea", "TopBorder", "LeftBorder",
            "RightBorder", "BottomBorder", "TopLeftCorner", "TopRightCorner",
            "BottomLeftCorner", "BottomRightCorner"}

ResizeHitTests == HitTest \ {"Content", "TitleBarOrDragArea"}

\* to_drag_action_1d with the two resize actions exchanged
to_drag_action_1d_swapped(ht, d) ==
    IF d = "Horizontal"
    THEN CASE ht \in {"Content", "TopBorder", "BottomBorder"} -> "None"
           [] ht = "TitleBarOrDragArea" -> "MoveWindow"
           [] ht \in {"LeftBorder", "TopLeftCorner", "BottomLeftCorner"} -> "ResizeUpper"
           [] OTHER -> "ResizeLower"
    ELSE CASE ht \in {"Content", "LeftBorder", "RightBorder"} -> "None"
           [] ht = "TitleBarOrDragArea" -> "MoveWindow"
           [] ht \in {"TopBorder", "TopLeftCorner", "TopRightCorner"} -> "ResizeUpper"
           [] OTHER -> "ResizeLower"

to_drag_action_1d(ht, d) ==
    IF d = "Horizontal"
    THEN CASE ht \in {"Content", "TopBorder", "BottomBorder"} -> "None"
           [] ht = "TitleBarOrDragArea" -> "MoveWindow"
           [] ht \in {"LeftBorder", "TopLeftCorner", "BottomLeftCorner"} -> "ResizeLower"
           [] OTHER -> "ResizeUpper"
    ELSE CASE ht \in {"Content", "LeftBorder", "RightBorder"} -> "None"
           [] ht = "TitleBarOrDragArea" -> "MoveWindow"
           [] ht \in {"TopBorder", "TopLeftCorner", "TopRightCorner"} -> "ResizeLower"
           [] OTHER -> "ResizeUpper"

----------------------------------------------------------------------------
(* FrameMetrics *)

with_hidpi_factor(hidpi) ==
    LET dpi_int == hidpi  \* fract() = 0 < 0.51 for the whole factors modelled
        border_thickness == (Lg(4) * dpi_int) \div hidpi
    IN  [border_thickness |-> border_thickness,
         title_bar_height |-> PxToLg(RoundPx(Lg(18), hidpi), hidpi),
         gap_below_title_bar |-> (Lg(1) * dpi_int) \div hidpi,
         collapsed_win_width |->
             PxToLg(RoundPx(Lg(150) + border_thickness * 2, hidpi), hidpi),
         title_button_padding |-> PxToLg(RoundPx(Lg(2), hidpi), hidpi),
         title_button_width |-> PxToLg(RoundPx(Lg(16), hidpi), hidpi),
         title_text_padding |-> PxToLg(RoundPx(Lg(4), hidpi), hidpi)]

----------------------------------------------------------------------------
(* The engine state as one value, so that an operation can call another. *)

St == [area_size |-> area_size, hidpi_factor |-> hidpi_factor,
       window_states |-> window_states, window_z_orders |-> window_z_orders,
       bottom_to_top_list |-> bottom_to_top_list, frame_metrics |-> frame_metrics,
       maybe_dragging_window |-> maybe_dragging_window,
       next_auto_position |-> next_auto_position, panicked |-> panicked]

\* A Vec index in bounds; out of bounds the indexing expression panics.
InBounds(s, win_id) == win_id >= 0 /\ win_id < Len(s.window_states)

Panic(s) == [s EXCEPT !.panicked = TRUE]

Slot(s, win_id) == s.window_states[win_id + 1]

SetSlot(s, win_id, win) ==
    [s EXCEPT !.window_states = [@ EXCEPT ![win_id + 1] = Some(win)]]

win_count(s) == Len(s.window_states)

topmost_win(s) ==
    IF s.bottom_to_top_list = <<>> THEN None
    ELSE Some(s.bottom_to_top_list[Len(s.bottom_to_top_list)])

win_z_order(s, win_id) == s.window_z_orders[win_id + 1]

win_normal_rect_int(s, win_id) ==
    IF ~IsSome(Slot(s, win_id)) THEN None
    ELSE LET rect == Unwrap(Slot(s, win_id)).rect
             h == s.hidpi_factor
         IN  Some(Rect(RoundPx(rect.x, h), RoundPx(rect.y, h),
                       RoundPx(rect.w, h), RoundPx(rect.h, h)))

win_normal_rect(s, win_id) ==
    IF ~IsSome(Slot(s, win_id)) THEN None
    ELSE LET rect == Unwrap(Slot(s, win_id)).rect
             h == s.hidpi_factor
         IN  Some(Rect(PxToLg(RoundPx(rect.x, h), h), PxToLg(RoundPx(rect.y, h), h),
                       PxToLg(RoundPx(rect.w, h), h), PxToLg(RoundPx(rect.h, h), h)))

win_display_rect_int(s, win_id) ==
    IF ~IsSome(Slot(s, win_id)) THEN None
    ELSE LET win == Unwrap(Slot(s, win_id))
             h == s.hidpi_factor
             fm == s.frame_metrics
         IN  IF win.is_hidden THEN None
             ELSE IF win.is_collapsed
             THEN Some(Rect(RoundPx(win.rect.x, h), RoundPx(win.rect.y, h),
                            RoundPx(fm.collapsed_win_width, h),
                            RoundPx(fm.title_bar_height + fm.border_thickness * 2, h)))
             ELSE win_normal_rect_int(s, win_id)

\* win_display_rect that reports the normal rectangle of a collapsed window
win_display_rect_ignores_collapse(s, win_id) ==
    IF ~IsSome(Slot(s, win_id)) THEN None
    ELSE IF Unwrap(Slot(s, win_id)).is_hidden THEN None
    ELSE win_normal_rect(s, win_id)

win_display_rect(s, win_id) ==
    IF ~IsSome(Slot(s, win_id)) THEN None
    ELSE LET win == Unwrap(Slot(s, win_id))
             h == s.hidpi_factor
             fm == s.frame_metrics
         IN  IF win.is_hidden THEN None
             ELSE IF win.is_collapsed
             THEN Some(Rect(PxToLg(RoundPx(win.rect.x, h), h),
                            PxToLg(RoundPx(win.rect.y, h), h),
                            fm.collapsed_win_width,
                            fm.title_bar_height + fm.border_thickness * 2))
             ELSE win_normal_rect(s, win_id)

set_win_normal_rect(s, win_id, rect) ==
    IF ~IsSome(Slot(s, win_id)) THEN s
    ELSE SetSlot(s, win_id, [Unwrap(Slot(s, win_id)) EXCEPT !.rect = rect])

set_win_normal_rect_int(s, win_id, rect) ==
    IF ~IsSome(Slot(s, win_id)) THEN s
    ELSE LET h == s.hidpi_factor
         IN  SetSlot(s, win_id,
                 [Unwrap(Slot(s, win_id)) EXCEPT
                      !.rect = Rect(PxToLg(rect.x, h), PxToLg(rect.y, h),
                                    PxToLg(rect.w, h), PxToLg(rect.h, h))])

win_is_hidden(s, win_id) ==
    IF IsSome(Slot(s, win_id)) THEN Unwrap(Slot(s, win_id)).is_hidden ELSE TRUE

\* win_is_collapsed that reports every window as expanded
win_is_collapsed_never(s, win_id) == FALSE

win_is_collapsed(s, win_id) ==
    IF IsSome(Slot(s, win_id)) THEN Unwrap(Slot(s, win_id)).is_collapsed ELSE FALSE

----------------------------------------------------------------------------
(* Z-order *)

\* next_id that hands out the lowest empty slot again when there is one
next_id_recycles(s) ==
    IF \E i \in 1..Len(s.window_states) : s.window_states[i] = None
    THEN s
    ELSE [s EXCEPT !.window_states = Append(@, None),
                   !.window_z_orders = Append(@, Len(s.window_states)),
                   !.bottom_to_top_list = Append(@, Len(s.window_states))]

\* next_id that puts the new id at the bottom of the z-order
next_id_at_bottom(s) ==
    [s EXCEPT !.window_states = Append(@, None),
              !.window_z_orders = Append([i \in 1..Len(@) |-> @[i] + 1], 0),
              !.bottom_to_top_list = <<Len(s.window_states)>> \o @]

next_id(s) ==
    LET id == Len(s.window_states)
    IN  [s EXCEPT !.window_states = Append(@, None),
                  !.window_z_orders = Append(@, id),
                  !.bottom_to_top_list = Append(@, id)]

\* subslice.rotate_left(1) on bottom_to_top_list[z_order..]
RotateLeftFrom(list, z_order) ==
    [i \in 1..Len(list) |->
        IF i <= z_order THEN list[i]
        ELSE IF i < Len(list) THEN list[i + 1]
        ELSE list[z_order + 1]]

\* for (i, &WinId(win)) in subslice.iter().enumerate():
\*     window_z_orders[win] = i + z_order        (the last write to an entry wins)
ReassignZOrders(zs, list, z_order) ==
    [w \in 1..Len(zs) |->
        LET at == {i \in (z_order + 1)..Len(list) : list[i] = w - 1}
        IN  IF at = {} THEN zs[w]
            ELSE (CHOOSE i \in at : \A j \in at : j <= i) - 1]

\* bring_to_top that leaves the z-order as it is
bring_to_top_skipped(s, win_id) == s

\* bring_to_top that swaps the window with the topmost one
bring_to_top_swaps(s, win_id) ==
    IF s.bottom_to_top_list = <<>> THEN Panic(s)
    ELSE IF s.bottom_to_top_list[Len(s.bottom_to_top_list)] = win_id THEN s
    ELSE IF ~(win_id >= 0 /\ win_id < Len(s.window_z_orders)) THEN Panic(s)
    ELSE LET z_order == s.window_z_orders[win_id + 1]
             top == s.bottom_to_top_list[Len(s.bottom_to_top_list)]
             len == Len(s.bottom_to_top_list)
         IN  [s EXCEPT !.bottom_to_top_list =
                           [@ EXCEPT ![z_order + 1] = top, ![len] = win_id],
                       !.window_z_orders =
                           [@ EXCEPT ![win_id + 1] = len - 1, ![top + 1] = z_order]]

\* bring_to_top that rotates the list and leaves window_z_orders as it was
bring_to_top_stale_ranks(s, win_id) ==
    IF s.bottom_to_top_list = <<>> THEN Panic(s)
    ELSE IF s.bottom_to_top_list[Len(s.bottom_to_top_list)] = win_id THEN s
    ELSE IF ~(win_id >= 0 /\ win_id < Len(s.window_z_orders)) THEN Panic(s)
    ELSE [s EXCEPT !.bottom_to_top_list =
                       RotateLeftFrom(@, s.window_z_orders[win_id + 1])]

bring_to_top(s, win_id) ==
    IF s.bottom_to_top_list = <<>>
    THEN Panic(s)   \* .expect("There must already be at least one window.")
    ELSE IF s.bottom_to_top_list[Len(s.bottom_to_top_list)] = win_id THEN s
    ELSE IF ~(win_id >= 0 /\ win_id < Len(s.window_z_orders))
    THEN Panic(s)   \* window_z_orders[win_idx]: index out of bounds
    ELSE LET z_order == s.window_z_orders[win_id + 1]
             list == RotateLeftFrom(s.bottom_to_top_list, z_order)
         IN  [s EXCEPT !.bottom_to_top_list = list,
                       !.window_z_orders = ReassignZOrders(@, list, z_order)]

----------------------------------------------------------------------------
(* Window life cycle *)

\* ensure_init with one step changed, as variant says: "client_size_only"
\* sizes the window without regard to min_size, "keeps_rank" leaves the z-order
\* alone, "cursor_stays" does not advance the auto-position cursor
ensure_init_variant(s, win_id, init, variant) ==
    IF ~InBounds(s, win_id) THEN Panic(s)
    ELSE IF IsSome(Slot(s, win_id)) THEN s
    ELSE LET fm == s.frame_metrics
             min_size == IF IsSome(init.min_size) THEN Unwrap(init.min_size)
                         ELSE <<Lg(150), Lg(50)>>
             w == (IF variant = "client_size_only" THEN init.client_size[1]
                   ELSE Max(init.client_size[1], min_size[1]))
                  + fm.border_thickness * 2
             h == (IF variant = "client_size_only" THEN init.client_size[2]
                   ELSE Max(init.client_size[2], min_size[2]))
                  + fm.border_thickness * 2
                  + fm.title_bar_height + fm.gap_below_title_bar
             cur == s.next_auto_position
             pos == IF cur[2] + h > s.area_size[2]
                    THEN <<Lg(32) + (cur[1] - cur[2]) + Lg(24), Lg(32)>>
                    ELSE cur
             xy == IF IsSome(init.position) THEN Unwrap(init.position) ELSE pos
             win == [rect |-> Rect(xy[1], xy[2], w, h),
                     min_size |-> [w |-> min_size[1], h |-> min_size[2]],
                     is_hidden |-> FALSE,
                     is_collapsed |-> init.is_collapsed,
                     is_needed |-> TRUE,
                     anchor_x |-> "None",
                     anchor_y |-> "None"]
             s1 == [s EXCEPT !.window_states = [@ EXCEPT ![win_id + 1] = <<win>>],
                             !.next_auto_position =
                                 IF IsSome(init.position) \/ variant = "cursor_stays"
                                 THEN @
                                 ELSE <<pos[1] + Lg(16), pos[2] + Lg(16)>>]
         IN  IF variant = "keeps_rank" THEN s1 ELSE bring_to_top(s1, win_id)

ensure_init_client_size_only(s, win_id, init) ==
    ensure_init_variant(s, win_id, init, "client_size_only")

ensure_init_keeps_rank(s, win_id, init) ==
    ensure_init_variant(s, win_id, init, "keeps_rank")

ensure_init_cursor_stays(s, win_id, init) ==
    ensure_init_variant(s, win_id, init, "cursor_stays")

\* init: WindowInitialState, client_size <<w, h>>, position and min_size Options
ensure_init(s, win_id, init) ==
    IF ~InBounds(s, win_id) THEN Panic(s)
    ELSE IF IsSome(Slot(s, win_id)) THEN s
    ELSE LET fm == s.frame_metrics
             double_border == fm.border_thickness * 2
             additional_height == fm.title_bar_height + fm.gap_below_title_bar
             min_size == IF IsSome(init.min_size) THEN Unwrap(init.min_size)
                         ELSE <<Lg(150), Lg(50)>>
             w == Max(init.client_size[1], min_size[1]) + double_border
             h == Max(init.client_size[2], min_size[2]) + double_border
                      + additional_height
             area_h == s.area_size[2]
             cur == s.next_auto_position
             pos == IF cur[2] + h > area_h
                    THEN <<Lg(32) + (cur[1] - cur[2]) + Lg(24), Lg(32)>>
                    ELSE cur
             explicit == IsSome(init.position)
             xy == IF explicit THEN Unwrap(init.position) ELSE pos
             win == [rect |-> Rect(xy[1], xy[2], w, h),
                     min_size |-> [w |-> min_size[1], h |-> min_size[2]],
                     is_hidden |-> FALSE,
                     is_collapsed |-> init.is_collapsed,
                     is_needed |-> TRUE,
                     anchor_x |-> "None",
                     anchor_y |-> "None"]
             s1 == [SetSlot(s, win_id, win) EXCEPT
                        !.next_auto_position =
                            IF explicit THEN @
                            ELSE <<pos[1] + Lg(16), pos[2] + Lg(16)>>]
         IN  bring_to_top(s1, win_id)

\* set_needed that unwraps the slot instead of testing it
set_needed_unwraps(s, win_id, is_needed) ==
    IF ~InBounds(s, win_id) \/ ~IsSome(Slot(s, win_id)) THEN Panic(s)
    ELSE SetSlot(s, win_id, [Unwrap(Slot(s, win_id)) EXCEPT !.is_needed = is_needed])

set_needed(s, win_id, is_needed) ==
    IF ~InBounds(s, win_id) THEN Panic(s)
    ELSE IF ~IsSome(Slot(s, win_id)) THEN s
    ELSE SetSlot(s, win_id, [Unwrap(Slot(s, win_id)) EXCEPT !.is_needed = is_needed])

\* set_all_needed that leaves the flags as they are
set_all_needed_skipped(s, is_needed) == s

set_all_needed(s, is_needed) ==
    [s EXCEPT !.window_states =
        [i \in 1..Len(@) |->
            IF IsSome(@[i]) THEN Some([Unwrap(@[i]) EXCEPT !.is_needed = is_needed])
            ELSE None]]

\* sweep_unneeded that also drops the drag session of a swept window
sweep_unneeded_ends_drag(s) ==
    [s EXCEPT !.window_states =
                  [i \in 1..Len(@) |->
                      IF IsSome(@[i]) /\ ~Unwrap(@[i]).is_needed THEN None ELSE @[i]],
              !.maybe_dragging_window =
                  IF IsSome(@) /\ IsSome(Slot(s, Unwrap(@).win_id))
                     /\ ~Unwrap(Slot(s, Unwrap(@).win_id)).is_needed
                  THEN None ELSE @]

sweep_unneeded(s) ==
    [s EXCEPT !.window_states =
        [i \in 1..Len(@) |->
            IF IsSome(@[i]) /\ ~Unwrap(@[i]).is_needed THEN None ELSE @[i]]]

----------------------------------------------------------------------------
(* Anchors and the area *)

SnapMargin(s) == RoundPx(Lg(8), s.hidpi_factor)

SnapThreshold(s) == RoundPx(Lg(12), s.hidpi_factor)

\* min_w / min_h of a window in device pixels
MinSizePx(s, win) ==
    LET fm == s.frame_metrics
    IN  [w |-> RoundPx(fm.border_thickness * 2 + win.min_size.w, s.hidpi_factor),
         h |-> RoundPx(fm.border_thickness * 2 + fm.title_bar_height + win.min_size.h,
                       s.hidpi_factor)]

AreaSizePx(s) == [w |-> TruncPx(s.area_size[1], s.hidpi_factor),
                  h |-> TruncPx(s.area_size[2], s.hidpi_factor)]

\* one `match win.anchor_x / anchor_y` of win_recompute_snapping_rect:
\* the new <<position, size>> on that axis
AnchoredDim(anchor, pos, size, display, area, min, snap_margin) ==
    CASE anchor = "None" -> <<pos, size>>
      [] anchor = "LowerEdge" -> <<0 + snap_margin, size>>
      [] anchor = "UpperEdge" -> <<area - display - snap_margin, size>>
      [] OTHER -> <<0 + snap_margin,
                    Max(min, area - (0 + snap_margin) - snap_margin)>>

win_recompute_snapping_rect(s, win_id) ==
    IF ~IsSome(Slot(s, win_id)) THEN s
    ELSE LET win == Unwrap(Slot(s, win_id))
         IN  IF win.is_hidden THEN s
             ELSE IF win.anchor_x = "None" /\ win.anchor_y = "None" THEN s
             ELSE LET area == AreaSizePx(s)
                      rect == Unwrap(win_normal_rect_int(s, win_id))
                      display_size == Unwrap(win_display_rect_int(s, win_id))
                      min == MinSizePx(s, win)
                      nx == AnchoredDim(win.anchor_x, rect.x, rect.w, display_size.w,
                                        area.w, min.w, SnapMargin(s))
                      ny == AnchoredDim(win.anchor_y, rect.y, rect.h, display_size.h,
                                        area.h, min.h, SnapMargin(s))
                  IN  set_win_normal_rect_int(s, win_id,
                                              Rect(nx[1], ny[1], nx[2], ny[2]))

RECURSIVE RecomputeFrom(_, _)
RecomputeFrom(s, i) ==
    IF i >= Len(s.window_states) THEN s
    ELSE RecomputeFrom(win_recompute_snapping_rect(s, i), i + 1)

\* recompute_snapped_win_rects that re-derives nothing
recompute_snapped_win_rects_skipped(s) == s

recompute_snapped_win_rects(s) == RecomputeFrom(s, 0)

set_dimensions(s, new_area_size, new_hidpi_factor) ==
    LET has_changed == s.area_size # new_area_size
                       \/ s.hidpi_factor # new_hidpi_factor
        s1 == [s EXCEPT !.frame_metrics =
                            IF s.hidpi_factor # new_hidpi_factor
                            THEN with_hidpi_factor(new_hidpi_factor) ELSE @,
                        !.area_size = new_area_size,
                        !.hidpi_factor = new_hidpi_factor]
    IN  IF has_changed THEN recompute_snapped_win_rects(s1) ELSE s1

\* the loop body with the width and height capped to the area plus the borders
ClampWinToArea_caps_size(s, win) ==
    IF win.is_hidden THEN win
    ELSE [win EXCEPT !.rect =
             [@ EXCEPT !.w = Min(@, s.area_size[1] + 2 * s.frame_metrics.border_thickness),
                       !.h = Min(@, s.area_size[2] + 2 * s.frame_metrics.border_thickness)]]

\* the loop body of ensure_all_win_in_area for one window
ClampWinToArea(s, win) ==
    LET fm == s.frame_metrics
        border_thickness == fm.border_thickness
        width_to_test == IF win.is_collapsed
                         THEN fm.collapsed_win_width - border_thickness
                         ELSE Min(fm.collapsed_win_width, win.rect.w) - border_thickness
        display_width == IF win.is_collapsed THEN fm.collapsed_win_width
                         ELSE win.rect.w
        x == IF win.rect.x <= width_to_test - display_width - border_thickness
             THEN width_to_test - display_width - border_thickness
             ELSE IF win.rect.x > s.area_size[1] - width_to_test
             THEN s.area_size[1] - width_to_test
             ELSE win.rect.x
        y == IF win.rect.y <= -border_thickness
             THEN -border_thickness
             ELSE IF win.rect.y > s.area_size[2] - (border_thickness + fm.title_bar_height)
             THEN s.area_size[2] - (border_thickness + fm.title_bar_height)
             ELSE win.rect.y
    IN  IF win.is_hidden THEN win
        ELSE [win EXCEPT !.rect = [@ EXCEPT !.x = x, !.y = y]]

ensure_all_win_in_area(s) ==
    [s EXCEPT !.window_states =
        [i \in 1..Len(@) |->
            IF IsSome(@[i]) THEN Some(ClampWinToArea(s, Unwrap(@[i]))) ELSE None]]

----------------------------------------------------------------------------
(* Setters *)

\* set_win_min_size that stores the minimum and leaves the rectangle alone
set_win_min_size_stores_only(s, win_id, min_size) ==
    IF ~InBounds(s, win_id) THEN Panic(s)
    ELSE IF ~IsSome(Slot(s, win_id)) THEN s
    ELSE SetSlot(s, win_id,
             [Unwrap(Slot(s, win_id)) EXCEPT
                  !.min_size = [w |-> min_size[1], h |-> min_size[2]]])

set_win_min_size(s, win_id, min_size) ==
    IF ~InBounds(s, win_id) THEN Panic(s)
    ELSE IF ~IsSome(Slot(s, win_id)) THEN s
    ELSE LET win == Unwrap(Slot(s, win_id))
             fm == s.frame_metrics
             min_w == fm.border_thickness * 2 + min_size[1]
             min_h == fm.border_thickness * 2 + fm.title_bar_height + min_size[2]
             grown == IF win.min_size.w < min_size[1] \/ win.min_size.h < min_size[2]
                      THEN [win.rect EXCEPT
                                !.w = IF @ < min_w THEN min_w ELSE @,
                                !.h = IF @ < min_h THEN min_h ELSE @]
                      ELSE win.rect
         IN  SetSlot(s, win_id,
                 [win EXCEPT !.rect = grown,
                             !.min_size = [w |-> min_size[1], h |-> min_size[2]]])

\* set_win_hidden without the early return for an unchanged value
set_win_hidden_always_recomputes(s, win_id, is_hidden) ==
    IF ~InBounds(s, win_id) THEN Panic(s)
    ELSE IF ~IsSome(Slot(s, win_id)) THEN s
    ELSE win_recompute_snapping_rect(
             SetSlot(s, win_id, [Unwrap(Slot(s, win_id)) EXCEPT !.is_hidden = is_hidden]),
             win_id)

\* set_win_hidden that unwraps the slot instead of testing it
set_win_hidden_unwraps(s, win_id, is_hidden) ==
    IF ~InBounds(s, win_id) THEN Panic(s)
    ELSE IF ~IsSome(Slot(s, win_id)) THEN Panic(s)
    ELSE IF Unwrap(Slot(s, win_id)).is_hidden = is_hidden THEN s
    ELSE win_recompute_snapping_rect(
             SetSlot(s, win_id, [Unwrap(Slot(s, win_id)) EXCEPT !.is_hidden = is_hidden]),
             win_id)

set_win_hidden(s, win_id, is_hidden) ==
    IF ~InBounds(s, win_id) THEN Panic(s)
    ELSE IF ~IsSome(Slot(s, win_id)) THEN s
    ELSE IF Unwrap(Slot(s, win_id)).is_hidden = is_hidden THEN s
    ELSE win_recompute_snapping_rect(
             SetSlot(s, win_id, [Unwrap(Slot(s, win_id)) EXCEPT !.is_hidden = is_hidden]),
             win_id)

\* set_win_collapsed that keeps the collapsed size in the stored rectangle
set_win_collapsed_stores_display(s, win_id, is_collapsed) ==
    IF ~InBounds(s, win_id) THEN Panic(s)
    ELSE IF ~IsSome(Slot(s, win_id)) THEN s
    ELSE IF Unwrap(Slot(s, win_id)).is_collapsed = is_collapsed THEN s
    ELSE LET s1 == SetSlot(s, win_id,
                       [Unwrap(Slot(s, win_id)) EXCEPT !.is_collapsed = is_collapsed])
         IN  IF IsSome(win_display_rect(s1, win_id))
             THEN set_win_normal_rect(s1, win_id, Unwrap(win_display_rect(s1, win_id)))
             ELSE s1

set_win_collapsed(s, win_id, is_collapsed) ==
    IF ~InBounds(s, win_id) THEN Panic(s)
    ELSE IF ~IsSome(Slot(s, win_id)) THEN s
    ELSE IF Unwrap(Slot(s, win_id)).is_collapsed = is_collapsed THEN s
    ELSE win_recompute_snapping_rect(
             SetSlot(s, win_id,
                 [Unwrap(Slot(s, win_id)) EXCEPT !.is_collapsed = is_collapsed]),
             win_id)

----------------------------------------------------------------------------
(* Hit testing *)

\* window_hit_test; sizes and positions are logical.  The 0.01 tolerance is
\* below the half logical pixel the model resolves, so it is "outside the
\* rectangle".
\* window_hit_test without the corner leeway: a single border band is always
\* its edge
window_hit_test_no_leeway(window_size, rel_pos, hidpi, fm) ==
    LET x == RoundPx(rel_pos[1], hidpi)
        y == RoundPx(rel_pos[2], hidpi)
        w == RoundPx(window_size[1], hidpi)
        h == RoundPx(window_size[2], hidpi)
        border_thickness == RoundPx(fm.border_thickness, hidpi)
        title_bar_height == RoundPx(fm.title_bar_height, hidpi)
        part_x == IF x <= border_thickness THEN "Left"
                  ELSE IF x > w - border_thickness THEN "Right" ELSE ""
        part_y == IF y <= border_thickness THEN "Top"
                  ELSE IF y > h - border_thickness THEN "Bottom" ELSE ""
    IN  IF rel_pos[1] < 0 \/ rel_pos[2] < 0
           \/ rel_pos[1] > window_size[1] \/ rel_pos[2] > window_size[2]
        THEN None
        ELSE Some(IF part_x # "" /\ part_y # "" THEN part_y \o part_x \o "Corner"
                  ELSE IF part_x # "" THEN part_x \o "Border"
                  ELSE IF part_y # "" THEN part_y \o "Border"
                  ELSE IF y <= border_thickness + title_bar_height
                  THEN "TitleBarOrDragArea" ELSE "Content")

window_hit_test(window_size, rel_pos, hidpi, fm) ==
    LET log_w == window_size[1]
        log_h == window_size[2]
        log_x == rel_pos[1]
        log_y == rel_pos[2]
        x == RoundPx(log_x, hidpi)
        y == RoundPx(log_y, hidpi)
        w == RoundPx(log_w, hidpi)
        h == RoundPx(log_h, hidpi)
        border_thickness == RoundPx(fm.border_thickness, hidpi)
        title_bar_height == RoundPx(fm.title_bar_height, hidpi)
        window_part_x == IF x <= border_thickness THEN "LeftBorder"
                         ELSE IF x > w - border_thickness THEN "RightBorder"
                         ELSE "Content"
        window_part_y == IF y <= border_thickness THEN "TopBorder"
                         ELSE IF y > h - border_thickness THEN "BottomBorder"
                         ELSE IF y <= border_thickness + title_bar_height THEN "TitleBar"
                         ELSE "Content"
        corner_leeway == border_thickness * 3
        is_near_l == x <= corner_leeway
        is_near_r == ~is_near_l /\ x > w - corner_leeway
        is_near_t == y <= corner_leeway
        is_near_b == ~is_near_t /\ y > h - corner_leeway
    IN  IF log_x < 0 \/ log_y < 0 \/ log_x > log_w \/ log_y > log_h THEN None
        ELSE Some(
            CASE window_part_x = "Content" /\ window_part_y = "Content" -> "Content"
              [] window_part_x = "LeftBorder" /\ window_part_y = "TopBorder" ->
                     "TopLeftCorner"
              [] window_part_x = "RightBorder" /\ window_part_y = "TopBorder" ->
                     "TopRightCorner"
              [] window_part_x = "LeftBorder" /\ window_part_y = "BottomBorder" ->
                     "BottomLeftCorner"
              [] window_part_x = "RightBorder" /\ window_part_y = "BottomBorder" ->
                     "BottomRightCorner"
              [] window_part_x = "LeftBorder"
                   /\ window_part_y \notin {"TopBorder", "BottomBorder"} ->
                     IF is_near_t THEN "TopLeftCorner"
                     ELSE IF is_near_b THEN "BottomLeftCorner" ELSE "LeftBorder"
              [] window_part_x = "RightBorder"
                   /\ window_part_y \notin {"TopBorder", "BottomBorder"} ->
                     IF is_near_t THEN "TopRightCorner"
                     ELSE IF is_near_b THEN "BottomRightCorner" ELSE "RightBorder"
              [] window_part_x = "Content" /\ window_part_y = "TopBorder" ->
                     IF is_near_l THEN "TopLeftCorner"
                     ELSE IF is_near_r THEN "TopRightCorner" ELSE "TopBorder"
              [] window_part_x = "Content" /\ window_part_y = "BottomBorder" ->
                     IF is_near_l THEN "BottomLeftCorner"
                     ELSE IF is_near_r THEN "BottomRightCorner" ELSE "BottomBorder"
              [] OTHER -> "TitleBarOrDragArea")

specific_win_hit_test(s, win_id, pos) ==
    IF ~IsSome(Slot(s, win_id)) THEN None
    ELSE LET win == Unwrap(Slot(s, win_id))
         IN  IF win.is_hidden THEN None
             ELSE LET win_rect == IF win.is_collapsed
                                  THEN Unwrap(win_display_rect(s, win_id))
                                  ELSE win.rect
                  IN  window_hit_test(<<win_rect.w, win_rect.h>>,
                                      <<pos[1] - win_rect.x, pos[2] - win_rect.y>>,
                                      s.hidpi_factor, s.frame_metrics)

\* win_hit_test_filtered; the filter f is the set of WinIds it accepts.  The
\* list is searched from the top, and the first window that is hit is returned
\* as <<win_id, hit test>>
\* win_hit_test_filtered that searches the list from the bottom
win_hit_test_filtered_bottom_first(s, pos, f) ==
    LET list == s.bottom_to_top_list
        hits == {i \in 1..Len(list) :
                    list[i] \in f /\ IsSome(specific_win_hit_test(s, list[i], pos))}
        bottom == CHOOSE i \in hits : \A j \in hits : i <= j
    IN  IF hits = {} THEN None
        ELSE Some(<<list[bottom], Unwrap(specific_win_hit_test(s, list[bottom], pos))>>)

win_hit_test_filtered(s, pos, f) ==
    LET list == s.bottom_to_top_list
        hits == {i \in 1..Len(list) :
                    list[i] \in f /\ IsSome(specific_win_hit_test(s, list[i], pos))}
        top == CHOOSE i \in hits : \A j \in hits : j <= i
    IN  IF hits = {} THEN None
        ELSE Some(<<list[top], Unwrap(specific_win_hit_test(s, list[top], pos))>>)

win_hit_test(s, pos) ==
    win_hit_test_filtered(s, pos, 0..(Len(s.window_states) - 1))

----------------------------------------------------------------------------
(* Dragging *)

\* check_snap_anchor::<D>
check_snap_anchor(d, rect, display_size, area_px, snap_margin) ==
    LET pos == PosDim(rect, d)
        is_snap_lower == pos = 0 + snap_margin
        is_snap_upper == pos + SizeDim(display_size, d)
                             = SizeDim(area_px, d) - snap_margin
    IN  CASE is_snap_lower /\ is_snap_upper -> "LowerAndUpperEdges"
          [] is_snap_lower /\ ~is_snap_upper -> "LowerEdge"
          [] ~is_snap_lower /\ is_snap_upper -> "UpperEdge"
          [] OTHER -> "None"

\* win_drag_end without the restore of starting_rect on abort
win_drag_end_no_restore(s, abort) ==
    [s EXCEPT !.maybe_dragging_window = None]

win_drag_end(s, abort) ==
    IF ~IsSome(s.maybe_dragging_window) THEN s
    ELSE LET dragging == Unwrap(s.maybe_dragging_window)
             win_id == dragging.win_id
             s1 == [s EXCEPT !.maybe_dragging_window = None]   \* .take()
         IN  IF abort
             THEN set_win_normal_rect_int(s1, win_id, dragging.starting_rect)
             ELSE IF ~IsSome(win_normal_rect_int(s1, win_id)) THEN s1
             ELSE IF ~IsSome(win_display_rect_int(s1, win_id)) THEN s1
             ELSE LET rect == Unwrap(win_normal_rect_int(s1, win_id))
                      display_size == Unwrap(win_display_rect_int(s1, win_id))
                      area == AreaSizePx(s1)
                      anchor_x == check_snap_anchor("Horizontal", rect, display_size,
                                                    area, SnapMargin(s1))
                      anchor_y == check_snap_anchor("Vertical", rect, display_size,
                                                    area, SnapMargin(s1))
                      s2 == SetSlot(s1, win_id,
                                [Unwrap(Slot(s1, win_id)) EXCEPT
                                     !.anchor_x = anchor_x, !.anchor_y = anchor_y])
                  IN  set_win_normal_rect_int(s2, win_id, rect)

current_dragging_win(s) ==
    IF IsSome(s.maybe_dragging_window)
    THEN Some(<<Unwrap(s.maybe_dragging_window).win_id,
                Unwrap(s.maybe_dragging_window).dragging_hit_test>>)
    ELSE None

\* base_iter of win_drag_start: (WinId, display RectI) of every other window that
\* has a display rectangle, in slot order
RECURSIVE OtherDisplayRects(_, _, _)
OtherDisplayRects(s, win_id, i) ==
    IF i >= Len(s.window_states) THEN <<>>
    ELSE (IF i # win_id /\ IsSome(win_display_rect_int(s, i))
          THEN <<[win_id |-> i, rect |-> Unwrap(win_display_rect_int(s, i))]>>
          ELSE <<>>)
         \o OtherDisplayRects(s, win_id, i + 1)

\* snap_candidates::<D>
snap_candidates(d, dragging_hit_test, win_rects, snap_margin, win_display_size) ==
    LET lower(e) == [win_id |-> e.win_id,
                     seg |-> SnapSegment_new(
                         PosDim(e.rect, d) - snap_margin - SizeDim(win_display_size, d),
                         RectRange(e.rect, PerpendicularDir(d)))]
        upper(e) == [win_id |-> e.win_id,
                     seg |-> SnapSegment_new(
                         PosDim(e.rect, d) + SizeDim(e.rect, d) + snap_margin,
                         RectRange(e.rect, PerpendicularDir(d)))]
        resize_upper(e) == [win_id |-> e.win_id,
                            seg |-> SnapSegment_new(
                                PosDim(e.rect, d) - snap_margin,
                                RectRange(e.rect, PerpendicularDir(d)))]
        action == to_drag_action_1d(dragging_hit_test, d)
    IN  CASE action = "None" -> <<>>
          [] action = "MoveWindow" ->
                [k \in 1..(2 * Len(win_rects)) |->
                    IF k % 2 = 1 THEN lower(win_rects[(k + 1) \div 2])
                    ELSE upper(win_rects[k \div 2])]
          [] action = "ResizeLower" ->
                [k \in 1..Len(win_rects) |-> upper(win_rects[k])]
          [] OTHER ->
                [k \in 1..Len(win_rects) |-> resize_upper(win_rects[k])]

\* win_drag_start's head with the other window's drag committed instead of
\* aborted
win_drag_start_prior_commits(s, win_id) == win_drag_end(s, FALSE)

\* the head of win_drag_start: a drag that is still active is ended first
win_drag_start_prior(s, win_id) ==
    IF IsSome(s.maybe_dragging_window)
    THEN (IF Unwrap(s.maybe_dragging_window).win_id = win_id
          THEN win_drag_end(s, FALSE)
          ELSE win_drag_end(s, TRUE))
    ELSE s

\* returns [st, ret]
win_drag_start(s, win_id, dragging_hit_test) ==
    LET s1 == win_drag_start_prior(s, win_id)
    IN  IF ~InBounds(s1, win_id) THEN [st |-> Panic(s1), ret |-> FALSE]
        ELSE IF dragging_hit_test \in ResizeHitTests /\ win_is_collapsed(s1, win_id)
        THEN [st |-> s1, ret |-> FALSE]
        ELSE IF ~IsSome(win_normal_rect_int(s1, win_id))
        THEN [st |-> s1, ret |-> FALSE]
        ELSE IF ~IsSome(win_display_rect_int(s1, win_id))
        THEN [st |-> s1, ret |-> FALSE]
        ELSE LET starting_rect == Unwrap(win_normal_rect_int(s1, win_id))
                 win_display_size == Unwrap(win_display_rect_int(s1, win_id))
                 base_iter == OtherDisplayRects(s1, win_id, 0)
             IN  [st |-> [s1 EXCEPT !.maybe_dragging_window = Some(
                            [win_id |-> win_id,
                             dragging_hit_test |-> dragging_hit_test,
                             starting_rect |-> starting_rect,
                             snap_candidates_x |->
                                 snap_candidates("Horizontal", dragging_hit_test,
                                     base_iter, SnapMargin(s1), win_display_size),
                             last_snapped_x |-> None,
                             snap_candidates_y |->
                                 snap_candidates("Vertical", dragging_hit_test,
                                     base_iter, SnapMargin(s1), win_display_size),
                             last_snapped_y |-> None])],
                  ret |-> TRUE]

snap_move(pos, edge, snap_threshold) ==
    IF Abs(pos - edge) < snap_threshold THEN Some(edge) ELSE None

snap_resize_upper(lower_pos, upper_pos, edge, min_dim, snap_threshold) ==
    IF IsSome(snap_move(upper_pos, edge, snap_threshold))
       /\ ~((edge - lower_pos) < min_dim)
    THEN Some(edge) ELSE None

snap_resize_lower(lower_pos, upper_pos, edge, min_dim, snap_threshold) ==
    IF IsSome(snap_move(lower_pos, edge, snap_threshold))
       /\ ~((upper_pos - edge) < min_dim)
    THEN Some(edge) ELSE None

\* The try_snap closure of one branch of calc_new_dimensions, as the values it
\* captures: the branch's action, the dragged position, the edge that stays
\* put (resizes only) and the limits.
try_snap(c, edge) ==
    CASE c.action = "MoveWindow" -> snap_move(c.target_pos, edge, c.snap_threshold)
      [] c.action = "ResizeLower" ->
             snap_resize_lower(c.target_pos, c.fixed_pos, edge, c.min_dim, c.snap_threshold)
      [] OTHER ->
             snap_resize_upper(c.fixed_pos, c.target_pos, edge, c.min_dim, c.snap_threshold)

\* snap_dimension without the preference for the last snapped candidate
snap_dimension_first_match(c, dim_range, candidates, last_snapped) ==
    LET usable(i) == overlaps_with(candidates[i].seg.dim_range, dim_range)
                     /\ IsSome(try_snap(c, candidates[i].seg.perpendicular_dim))
        hits == {i \in 1..Len(candidates) : usable(i)}
        first == CHOOSE i \in hits : \A j \in hits : i <= j
    IN  IF hits # {}
        THEN [snap |-> try_snap(c, candidates[first].seg.perpendicular_dim),
              last_snapped |-> Some(first - 1)]
        ELSE [snap |-> None, last_snapped |-> None]

\* returns [snap, last_snapped]
snap_dimension(c, dim_range, candidates, last_snapped) ==
    LET usable(i) == overlaps_with(candidates[i].seg.dim_range, dim_range)
                     /\ IsSome(try_snap(c, candidates[i].seg.perpendicular_dim))
        hits == {i \in 1..Len(candidates) : usable(i)}
        first == CHOOSE i \in hits : \A j \in hits : i <= j
    IN  IF IsSome(last_snapped) /\ usable(Unwrap(last_snapped) + 1)
        THEN [snap |-> try_snap(c, candidates[Unwrap(last_snapped) + 1].seg.perpendicular_dim),
              last_snapped |-> last_snapped]
        ELSE IF hits # {}
        THEN [snap |-> try_snap(c, candidates[first].seg.perpendicular_dim),
              last_snapped |-> Some(first - 1)]
        ELSE [snap |-> None, last_snapped |-> None]

\* the tail with the window candidates tried before the area edge
SnapWindowsThenArea(area_snap, c, dim_range, candidates, last_snapped) ==
    IF IsSome(snap_dimension(c, dim_range, candidates, last_snapped).snap)
    THEN snap_dimension(c, dim_range, candidates, last_snapped)
    ELSE IF IsSome(area_snap) THEN [snap |-> area_snap, last_snapped |-> None]
    ELSE [snap |-> None, last_snapped |-> None]

\* The tail shared by the three snapping branches of calc_new_dimensions: the area
\* edge first (clearing last_snapped), then snap_dimension.
\* returns [snap, last_snapped]
SnapAreaThenWindows(area_snap, c, dim_range, candidates, last_snapped) ==
    IF IsSome(area_snap) THEN [snap |-> area_snap, last_snapped |-> None]
    ELSE snap_dimension(c, dim_range, candidates, last_snapped)

\* calc_new_dimensions::<D>; returns [pos, size, last_snapped].  geom is the
\* window's geometry [starting_rect, prev_display_rect, win_min_size] and
\* snap the snapping context [area_px, snap_margin, snap_threshold, candidates].
calc_new_dimensions(d, dragging_hit_test, geom, delta, snap, last_snapped) ==
    LET starting_rect == geom.starting_rect
        prev_display_rect == geom.prev_display_rect
        win_min_size == geom.win_min_size
        area_px == snap.area_px
        snap_margin == snap.snap_margin
        candidates == snap.candidates
        dim_range == RectRange(prev_display_rect, PerpendicularDir(d))
        start_pos == PosDim(starting_rect, d)
        start_size == SizeDim(starting_rect, d)
        action == to_drag_action_1d(dragging_hit_test, d)
        closure(target_pos, fixed_pos) ==
            [action |-> action, target_pos |-> target_pos, fixed_pos |-> fixed_pos,
             min_dim |-> win_min_size, snap_threshold |-> snap.snap_threshold]
    IN  CASE action = "None" ->
              [pos |-> start_pos, size |-> start_size, last_snapped |-> last_snapped]
          [] action = "MoveWindow" ->
              LET target_pos == start_pos + delta
                  c == closure(target_pos, 0)
                  area_snap ==
                      IF IsSome(try_snap(c, 0 + snap_margin))
                      THEN try_snap(c, 0 + snap_margin)
                      ELSE try_snap(c, SizeDim(area_px, d) - snap_margin
                                       - SizeDim(prev_display_rect, d))
                  r == SnapAreaThenWindows(area_snap, c, dim_range,
                                           candidates, last_snapped)
              IN  [pos |-> IF IsSome(r.snap) THEN Unwrap(r.snap) ELSE target_pos,
                   size |-> start_size,
                   last_snapped |-> r.last_snapped]
          [] action = "ResizeLower" ->
              LET target_pos == start_pos + delta
                  c == closure(target_pos, start_pos + start_size)
                  r == SnapAreaThenWindows(try_snap(c, 0 + snap_margin), c,
                                           dim_range, candidates, last_snapped)
                  new_pos == IF IsSome(r.snap) THEN Unwrap(r.snap)
                             ELSE start_pos + start_size
                                  - Max(start_size - delta, win_min_size)
              IN  [pos |-> new_pos,
                   size |-> start_size + start_pos - new_pos,
                   last_snapped |-> r.last_snapped]
          [] OTHER ->
              LET target_pos == start_pos + start_size + delta
                  c == closure(target_pos, start_pos)
                  r == SnapAreaThenWindows(try_snap(c, SizeDim(area_px, d) - snap_margin),
                                           c, dim_range, candidates, last_snapped)
              IN  [pos |-> start_pos,
                   size |-> IF IsSome(r.snap) THEN Unwrap(r.snap) - start_pos
                            ELSE Max(start_size + delta, win_min_size),
                   last_snapped |-> r.last_snapped]

\* win_drag_update that only reports that nothing was dragged
win_drag_update_reports_only(s, offset) == [st |-> s, ret |-> FALSE]

\* returns [st, ret]
win_drag_update(s, offset) ==
    IF ~IsSome(s.maybe_dragging_window) THEN [st |-> s, ret |-> FALSE]
    ELSE LET dragging == Unwrap(s.maybe_dragging_window)
             win_id == dragging.win_id
         IN  IF ~IsSome(win_display_rect_int(s, win_id))
             THEN [st |-> win_drag_end(s, TRUE), ret |-> FALSE]
             ELSE LET prev_rect == Unwrap(win_display_rect_int(s, win_id))
                      dx == RoundPx(offset[1], s.hidpi_factor)
                      dy == RoundPx(offset[2], s.hidpi_factor)
                      s1 == bring_to_top(s, win_id)
                      min == MinSizePx(s1, Unwrap(Slot(s1, win_id)))
                      area == AreaSizePx(s1)
                      geom(min_dim) ==
                          [starting_rect |-> dragging.starting_rect,
                           prev_display_rect |-> prev_rect, win_min_size |-> min_dim]
                      snap(candidates) ==
                          [area_px |-> area, snap_margin |-> SnapMargin(s1),
                           snap_threshold |-> SnapThreshold(s1),
                           candidates |-> candidates]
                      h == calc_new_dimensions("Horizontal", dragging.dragging_hit_test,
                               geom(min.w), dx, snap(dragging.snap_candidates_x),
                               dragging.last_snapped_x)
                      v == calc_new_dimensions("Vertical", dragging.dragging_hit_test,
                               geom(min.h), dy, snap(dragging.snap_candidates_y),
                               dragging.last_snapped_y)
                      s2 == [s1 EXCEPT !.maybe_dragging_window = Some(
                                [dragging EXCEPT !.last_snapped_x = h.last_snapped,
                                                 !.last_snapped_y = v.last_snapped])]
                  IN  IF s1.panicked THEN [st |-> s1, ret |-> FALSE]
                      ELSE [st |-> set_win_normal_rect_int(s2, win_id,
                                       Rect(h.pos, v.pos, h.size, v.size)),
                            ret |-> TRUE]

----------------------------------------------------------------------------
(* The widget: WindowingArea::update and WindowingContext::make_window.      *)
(* w is the widget's State: maybe_dragging_win, and frames_len, the length   *)
(* of ids.window_frames.  Positions and drag deltas are layout coordinates   *)
(* (conrod_point_to_layout_pos applied).                                     *)

NoEvent == [kind |-> "None"]

\* the Ui::Press arm: the frame of window win_id was pressed
on_press(s, w, event) ==
    [st |-> bring_to_top(s, event.win_id), w |-> w, origin |-> None]

\* the end of the Ui::Drag arm: the widget remembers whether the drag is a
\* window drag; updated is win_drag_update's result
on_drag_done(w, updated, origin) ==
    [st |-> updated.st,
     w |-> [w EXCEPT !.maybe_dragging_win = Some(updated.ret)],
     origin |-> origin]

\* the Ui::Drag arm once it is known whether a window is dragged (started):
\* a window drag is updated by the drag's total delta
on_drag_update(w, started, delta, origin) ==
    on_drag_done(w,
        IF started.ret THEN win_drag_update(started.st, delta)
        ELSE [st |-> started.st, ret |-> FALSE],
        IF ~IsSome(w.maybe_dragging_win) /\ started.ret THEN origin ELSE None)

\* the Ui::Drag arm, for a left-button drag that began at event.origin on the
\* frame of the dragged or topmost window
on_drag(s, w, event) ==
    IF w.maybe_dragging_win = Some(FALSE) THEN [st |-> s, w |-> w, origin |-> None]
    ELSE IF ~IsSome(topmost_win(s)) THEN [st |-> Panic(s), w |-> w, origin |-> None]
    ELSE LET topmost_win_id == Unwrap(topmost_win(s))
             ht == specific_win_hit_test(s, topmost_win_id, event.origin)
         IN  on_drag_update(w,
                 IF IsSome(w.maybe_dragging_win)
                 THEN [st |-> s, ret |-> Unwrap(w.maybe_dragging_win)]
                 ELSE IF IsSome(ht)
                 THEN win_drag_start(s, topmost_win_id, Unwrap(ht))
                 ELSE [st |-> s, ret |-> FALSE],
                 event.delta, Slot(s, topmost_win_id))

\* the Ui::Release arm without win_drag_end
on_release_keeps_drag(s, w, event) ==
    [st |-> s, w |-> [w EXCEPT !.maybe_dragging_win = None], origin |-> None]

\* the Ui::Release arm
on_release(s, w, event) ==
    IF IsSome(w.maybe_dragging_win)
    THEN [st |-> IF Unwrap(w.maybe_dragging_win) THEN win_drag_end(s, FALSE) ELSE s,
          w |-> [w EXCEPT !.maybe_dragging_win = None],
          origin |-> None]
    ELSE [st |-> s, w |-> w, origin |-> None]

\* the end of update, after the event: the windows are pulled back into the
\* area unless one is being dragged, and every is_needed flag is cleared
update_finish(handled) ==
    IF handled.st.panicked THEN handled
    ELSE [st |-> set_all_needed(IF handled.w.maybe_dragging_win # Some(TRUE)
                                THEN ensure_all_win_in_area(handled.st)
                                ELSE handled.st, FALSE),
          w |-> handled.w,
          origin |-> handled.origin]

\* update's event handling, on the state s2 that set_dimensions left
update_event(s2, w1, event) ==
    update_finish(
        CASE event.kind = "Press" -> on_press(s2, w1, event)
          [] event.kind = "Drag" -> on_drag(s2, w1, event)
          [] event.kind = "Release" -> on_release(s2, w1, event)
          [] OTHER -> [st |-> s2, w |-> w1, origin |-> None])

\* update after the sweep: ids.window_frames is resized to win_count and the
\* area's dimensions are set
update_swept(s1, w, dims, event) ==
    update_event(set_dimensions(s1, dims[1], dims[2]),
                 [w EXCEPT !.frames_len = win_count(s1)], event)

\* WindowingArea::update with the area given by dims = <<area_size, hidpi>>
\* and one input event; returns [st, w, origin]
update(s, w, dims, event) == update_swept(sweep_unneeded(s), w, dims, event)

\* make_window's collapse setting: a window that is not collapsible is
\* uncollapsed, a collapsible one follows the builder's is_collapsed, if given
make_window_collapsed(s3, builder, win_id) ==
    IF builder.is_collapsible
    THEN (IF IsSome(builder.is_collapsed)
          THEN set_win_collapsed(s3, win_id, Unwrap(builder.is_collapsed))
          ELSE s3)
    ELSE set_win_collapsed(s3, win_id, FALSE)

\* make_window after set_needed: the builder's min_size, collapsed and hidden
\* settings are applied to s2
make_window_settings(s2, builder, win_id) ==
    set_win_hidden(
        make_window_collapsed(
            IF IsSome(builder.min_size)
            THEN set_win_min_size(s2, win_id, Unwrap(builder.min_size))
            ELSE s2,
            builder, win_id),
        win_id, builder.is_hidden)

\* the rest of make_window for a window in state s5: a hidden window gets no
\* frame; a shown one takes its frame id and may be toggled
make_window_frame(s5, w, builder, win_id, toggle) ==
    IF builder.is_hidden THEN s5
    ELSE IF win_id >= w.frames_len
    THEN Panic(s5)   \* state.ids.window_frames[win_idx]
    ELSE IF builder.is_collapsible /\ ~IsSome(builder.is_collapsed) /\ toggle
    THEN set_win_collapsed(s5, win_id, ~win_is_collapsed(s5, win_id))
    ELSE s5

\* make_window from ensure_init's result s1 on
make_window_needed(s1, w, builder, win_id, toggle) ==
    IF s1.panicked THEN s1
    ELSE make_window_frame(
             make_window_settings(set_needed(s1, win_id, TRUE), builder, win_id),
             w, builder, win_id, toggle)

\* WindowingContext::make_window; builder: initial_size, initial_position and
\* min_size Options, is_collapsible, is_collapsed Option, is_hidden;
\* toggle: the collapse button or a title-bar double click came in an odd
\* number this frame
make_window(s, w, builder, win_id, toggle) ==
    make_window_needed(
        ensure_init(s, win_id,
            [client_size |-> IF IsSome(builder.initial_size)
                             THEN Unwrap(builder.initial_size)
                             ELSE <<Lg(200), Lg(200)>>,
             position |-> builder.initial_position,
             min_size |-> builder.min_size,
             is_collapsed |-> FALSE]),
        w, builder, win_id, toggle)

----------------------------------------------------------------------------
(* Bounds *)

\* at most this many next_id calls
MaxWins == 2

\* a window is created, or a drag offset taken, only while every window stays
\* within this many logical pixels of the origin on both axes ...
MaxCoord == 120

\* ... and is at most this wide and high (logical pixels)
MaxExtent == 180

\* the WinIds next_id has returned
AllocatedIds == 0..(Len(bottom_to_top_list) - 1)

WithinRange(s) ==
    \A i \in 1..Len(s.window_states) :
        IsSome(s.window_states[i]) =>
            LET r == Unwrap(s.window_states[i]).rect
            IN  /\ Abs(r.x) <= Lg(MaxCoord)
                /\ Abs(r.y) <= Lg(MaxCoord)
                /\ r.w <= Lg(MaxExtent)
                /\ r.h <= Lg(MaxExtent)

\* a RectI as win_normal_rect_int rounds a logical Rect
RectInt(rect, hidpi) ==
    Rect(RoundPx(rect.x, hidpi), RoundPx(rect.y, hidpi),
         RoundPx(rect.w, hidpi), RoundPx(rect.h, hidpi))

----------------------------------------------------------------------------
(* History *)

NoCall == [op |-> "new", id |-> -1, ht |-> "", flag |-> FALSE, ret |-> FALSE,
           was_dragging |-> -1, changed |-> FALSE]

Call(s, op, id, ht, flag, ret) ==
    [op |-> op, id |-> id, ht |-> ht, flag |-> flag, ret |-> ret,
     was_dragging |-> IF IsSome(maybe_dragging_window)
                      THEN Unwrap(maybe_dragging_window).win_id ELSE -1,
     changed |-> s.window_states # window_states]

SetEngine(s) ==
    /\ area_size' = s.area_size
    /\ hidpi_factor' = s.hidpi_factor
    /\ window_states' = s.window_states
    /\ window_z_orders' = s.window_z_orders
    /\ bottom_to_top_list' = s.bottom_to_top_list
    /\ frame_metrics' = s.frame_metrics
    /\ maybe_dragging_window' = s.maybe_dragging_window
    /\ next_auto_position' = s.next_auto_position
    /\ panicked' = s.panicked

\* the rectangle and anchors of the window a drag has just been started on, as
\* the drag found them (after any earlier drag was ended); kept until no drag
\* is active
Origin(s, op, id, ret) ==
    IF ~IsSome(s.maybe_dragging_window) THEN None
    ELSE IF op = "win_drag_start" /\ ret
    THEN LET win == Unwrap(Slot(win_drag_start_prior(St, id), id))
         IN  Some([rect |-> win.rect, anchor_x |-> win.anchor_x,
                   anchor_y |-> win.anchor_y])
    ELSE drag_origin

\* one call into the engine from outside the widget
Apply(s, op, id, ht, flag, ret) ==
    /\ ~panicked
    /\ SetEngine(s)
    /\ last_call' = Call(s, op, id, ht, flag, ret)
    /\ drag_origin' = Origin(s, op, id, ret)
    /\ UNCHANGED widget

----------------------------------------------------------------------------
(* Init: WindowingState::new() and WindowingArea::init_state *)

Init ==
    /\ area_size = <<Lg(16777216), Lg(16777216)>>
    /\ hidpi_factor = 1
    /\ window_states = <<>>
    /\ window_z_orders = <<>>
    /\ bottom_to_top_list = <<>>
    /\ frame_metrics = with_hidpi_factor(1)
    /\ maybe_dragging_window = None
    /\ next_auto_position = <<Lg(32), Lg(32)>>
    /\ panicked = FALSE
    /\ last_call = NoCall
    /\ drag_origin = None
    /\ widget = [maybe_dragging_win |-> None, frames_len |-> 0, requested |-> {}]

----------------------------------------------------------------------------
(* Actions: one per engine operation; the arguments are drawn from the sets  *)
(* a specification passes in.                                                *)

NextId(max_wins) ==
    /\ Len(window_states) < max_wins
    /\ Apply(next_id(St), "next_id", Len(window_states), "", FALSE, FALSE)

EnsureInit(id, inits) ==
    \E init \in inits :
        /\ WithinRange(ensure_init(St, id, init))
        /\ Apply(ensure_init(St, id, init), "ensure_init", id, "", FALSE, FALSE)

SetNeeded(id) ==
    \E v \in BOOLEAN : Apply(set_needed(St, id, v), "set_needed", id, "", v, FALSE)

SetAllNeeded ==
    \E v \in BOOLEAN : Apply(set_all_needed(St, v), "set_all_needed", -1, "", v, FALSE)

SweepUnneeded ==
    Apply(sweep_unneeded(St), "sweep_unneeded", -1, "", FALSE, FALSE)

BringToTop(id) ==
    Apply(bring_to_top(St, id), "bring_to_top", id, "", FALSE, FALSE)

SetWinHidden(id) ==
    \E v \in BOOLEAN :
        Apply(set_win_hidden(St, id, v), "set_win_hidden", id, "", v, FALSE)

SetWinCollapsed(id) ==
    \E v \in BOOLEAN :
        Apply(set_win_collapsed(St, id, v), "set_win_collapsed", id, "", v, FALSE)

SetWinMinSize(id, sizes) ==
    \E m \in sizes :
        Apply(set_win_min_size(St, id, m), "set_win_min_size", id, "", FALSE, FALSE)

SetWinNormalRect(id, rects) ==
    \E rect \in rects :
        Apply(set_win_normal_rect(St, id, rect), "set_win_normal_rect", id, "",
              FALSE, FALSE)

SetWinNormalRectInt(id, rects) ==
    \E rect \in rects :
        Apply(set_win_normal_rect_int(St, id, RectInt(rect, hidpi_factor)),
              "set_win_normal_rect_int", id, "", FALSE, FALSE)

SetDimensions(dims) ==
    \E d \in dims :
        Apply(set_dimensions(St, d[1], d[2]), "set_dimensions", -1, "", FALSE, FALSE)

EnsureAllWinInArea ==
    Apply(ensure_all_win_in_area(St), "ensure_all_win_in_area", -1, "", FALSE, FALSE)

WinDragStart(id, hts) ==
    \E ht \in hts :
        \E r \in {win_drag_start(St, id, ht)} :
            Apply(r.st, "win_drag_start", id, ht, FALSE, r.ret)

WinDragUpdate(offsets) ==
    \E offset \in offsets :
        \E r \in {win_drag_update(St, offset)} :
            /\ WithinRange(r.st)
            /\ Apply(r.st, "win_drag_update", -1, "", FALSE, r.ret)

WinDragEnd ==
    \E abort \in BOOLEAN :
        Apply(win_drag_end(St, abort), "win_drag_end", -1, "", abort, FALSE)

\* the widget's State, without the frame history
WidgetState == [maybe_dragging_win |-> widget.maybe_dragging_win,
                frames_len |-> widget.frames_len]

\* one frame's WindowingArea::update; no window is requested yet in the frame
\* it begins
Update(dimensions, events) ==
    \E dims \in dimensions, event \in events :
        \E r \in {update(St, WidgetState, dims, event)} :
            /\ ~panicked
            /\ event.kind = "Press" => event.win_id < widget.frames_len
            /\ WithinRange(r.st)
            /\ SetEngine(r.st)
            /\ last_call' = Call(r.st, "update", -1, event.kind, FALSE, FALSE)
            /\ drag_origin' =
                   IF ~IsSome(r.st.maybe_dragging_window) THEN None
                   ELSE IF IsSome(r.origin)
                   THEN LET win == Unwrap(r.origin)
                        IN  Some([rect |-> win.rect, anchor_x |-> win.anchor_x,
                                  anchor_y |-> win.anchor_y])
                   ELSE drag_origin
            /\ widget' = [maybe_dragging_win |-> r.w.maybe_dragging_win,
                          frames_len |-> r.w.frames_len,
                          requested |-> {}]

\* one make_window call of the frame
MakeWindow(id, builders) ==
    \E builder \in builders, toggle \in BOOLEAN :
        \E st \in {make_window(St, WidgetState, builder, id, toggle)} :
            /\ ~panicked
            /\ WithinRange(st)
            /\ SetEngine(st)
            /\ last_call' = Call(st, "make_window", id, "", toggle, FALSE)
            /\ drag_origin' = IF ~IsSome(st.maybe_dragging_window) THEN None
                              ELSE drag_origin
            /\ widget' = [widget EXCEPT !.requested = @ \cup {id}]

----------------------------------------------------------------------------
(* Inputs the specifications draw from *)

\* make_window's WindowInitialState values: a window at (100, 100), and a
\* collapsed one that is half a logical pixel off the device-pixel grid
InitialStates ==
    {[client_size |-> <<Lg(150), Lg(50)>>, position |-> Some(<<Lg(100), Lg(100)>>),
      min_size |-> None, is_collapsed |-> FALSE],
     [client_size |-> <<Lg(100), Lg(50)>>,
      position |-> Some(<<Lg(100) + 1, Lg(100) + 1>>),
      min_size |-> Some(<<Lg(150), Lg(50)>>), is_collapsed |-> TRUE]}

PlainInitialState == CHOOSE init \in InitialStates : ~init.is_collapsed

MinSizes == {<<Lg(160), Lg(60)>>}

\* <<area_size, hidpi_factor>>
Dimensions == {<<<<Lg(400), Lg(185)>>, 1>>}

DragHitTests == {"TitleBarOrDragArea", "RightBorder"}

\* logical offsets
DragOffsets == {<<Lg(-92), Lg(-92)>>, <<Lg(92), Lg(92)>>}

\* the window a drag is active on, or -1
DraggedId ==
    IF IsSome(maybe_dragging_window) THEN Unwrap(maybe_dragging_window).win_id ELSE -1

----------------------------------------------------------------------------
(* Spec: dragging.  Windows are created, collapsed and dragged by the title  *)
(* bar or the right border.                                                   *)

Next ==
    \/ NextId(MaxWins)
    \/ \E id \in AllocatedIds : EnsureInit(id, InitialStates)
    \/ \E id \in AllocatedIds : SetWinCollapsed(id)
    \/ \E id \in AllocatedIds : WinDragStart(id, DragHitTests)
    \/ WinDragUpdate(DragOffsets)
    \/ WinDragEnd

Spec == Init /\ [][Next]_vars

\* a step that is win_drag_start(B, _) while another window A is being dragged
ConflictingDragStart ==
    /\ last_call'.op = "win_drag_start"
    /\ DraggedId # -1
    /\ DraggedId # last_call'.id
    /\ IsSome(Slot(St, DraggedId))

\* C2 as stated: win_drag_start(B, ht) while another window A is dragged
\* commits A's drag, so A keeps the rectangle of its last win_drag_update.
C2_PreviousDragCommitted ==
    [][ConflictingDragStart =>
           Unwrap(window_states'[DraggedId + 1]).rect
               = Unwrap(window_states[DraggedId + 1]).rect]_vars

\* C2 amended: win_drag_start(B, ht) while another window A is dragged aborts
\* A's drag: A is back at the device-pixel rectangle its drag started from and
\* A's anchors are as they were, and then the drag state is B's or none.
C2_PreviousDragAborted ==
    [][ConflictingDragStart =>
           LET a == DraggedId
               before == Unwrap(window_states[a + 1])
               after == Unwrap(window_states'[a + 1])
               h == hidpi_factor
           IN  /\ RectInt(after.rect, h)
                      = Unwrap(maybe_dragging_window).starting_rect
               /\ RectInt(after.rect, h) = RectInt(Unwrap(drag_origin).rect, h)
               /\ after.anchor_x = before.anchor_x
               /\ after.anchor_y = before.anchor_y
               /\ DraggedId' \in {-1, last_call'.id}
               /\ last_call'.ret <=> DraggedId' = last_call'.id]_vars

\* C2 witness: a drag was started on one window while another, already moved
\* by win_drag_update, was being dragged, and the call changed that window.
C2_Witness ==
    /\ last_call.op = "win_drag_start"
    /\ last_call.ret
    /\ last_call.was_dragging \notin {-1, last_call.id}
    /\ last_call.changed
    /\ DraggedId = last_call.id

\* C3 as stated: win_drag_start with a border or corner hit test on a
\* collapsed window returns false and changes nothing of the engine's state,
\* an active drag session included.
C3_RefusalChangesNothing ==
    [][(/\ last_call'.op = "win_drag_start"
        /\ last_call'.ht \in ResizeHitTests
        /\ win_is_collapsed(St, last_call'.id))
       => (~last_call'.ret /\ UNCHANGED engine_vars)]_vars

\* a step that is win_drag_end(true) while a drag is active
DragAbort ==
    /\ last_call'.op = "win_drag_end"
    /\ last_call'.flag
    /\ DraggedId # -1
    /\ IsSome(Slot(St, DraggedId))

\* C4 as stated: win_drag_start, win_drag_update calls and win_drag_end(true)
\* put the window's stored rectangle back to exactly what it was before the
\* drag started, with the anchors unchanged and no drag active.
C4_AbortRestoresExactly ==
    [][DragAbort =>
           LET after == Unwrap(window_states'[DraggedId + 1])
               origin == Unwrap(drag_origin)
           IN  /\ after.rect = origin.rect
               /\ after.anchor_x = origin.anchor_x
               /\ after.anchor_y = origin.anchor_y
               /\ DraggedId' = -1]_vars

\* C4 amended: win_drag_start, win_drag_update calls and win_drag_end(true)
\* put the window back at the device-pixel rounding of the rectangle it had
\* before the drag started (what win_normal_rect_int returned then), with the
\* anchors unchanged and no drag active.
C4_AbortRestoresPixelRect ==
    [][DragAbort =>
           LET after == Unwrap(window_states'[DraggedId + 1])
               origin == Unwrap(drag_origin)
               h == hidpi_factor
               rounded == RectInt(origin.rect, h)
           IN  /\ after.rect = Rect(PxToLg(rounded.x, h), PxToLg(rounded.y, h),
                                    PxToLg(rounded.w, h), PxToLg(rounded.h, h))
               /\ RectInt(after.rect, hidpi_factor') = rounded
               /\ after.anchor_x = origin.anchor_x
               /\ after.anchor_y = origin.anchor_y
               /\ DraggedId' = -1]_vars

\* C4 witness: a drag that had moved its window was aborted and the window is
\* back where the drag found it.
C4_Witness ==
    /\ last_call.op = "win_drag_end"
    /\ last_call.flag
    /\ last_call.was_dragging # -1
    /\ last_call.changed
    /\ DraggedId = -1

----------------------------------------------------------------------------
(* SpecMinSize: dragging while the owner of a window raises its minimum      *)
(* size.                                                                      *)

NextMinSize ==
    \/ NextId(MaxWins)
    \/ \E id \in AllocatedIds : EnsureInit(id, {PlainInitialState})
    \/ \E id \in AllocatedIds : SetWinMinSize(id, MinSizes)
    \/ \E id \in AllocatedIds : WinDragStart(id, DragHitTests)
    \/ WinDragUpdate(DragOffsets)
    \/ WinDragEnd

SpecMinSize == Init /\ [][NextMinSize]_vars

\* the least total size of a window, in logical units, of its min_size
MinTotalSize(win) ==
    [w |-> frame_metrics.border_thickness * 2 + win.min_size.w,
     h |-> frame_metrics.border_thickness * 2 + frame_metrics.title_bar_height
               + win.min_size.h]

\* C5 as stated: after every win_drag_update of a resizing drag the dragged
\* window is, in device pixels, at least 2*border + min_size.w wide and at
\* least 2*border + title_bar_height + min_size.h high.
C5_ResizeKeepsMinimum ==
    (/\ last_call.op = "win_drag_update"
     /\ last_call.ret
     /\ DraggedId # -1
     /\ Unwrap(maybe_dragging_window).dragging_hit_test \in ResizeHitTests)
    => LET win == Unwrap(Slot(St, DraggedId))
           px == RectInt(win.rect, hidpi_factor)
       IN  /\ px.w >= MinSizePx(St, win).w
           /\ px.h >= MinSizePx(St, win).h

\* C6 as stated: in every reachable state the stored rectangle of every
\* initialised window is at least 2*border + min_size.w wide and at least
\* 2*border + title_bar_height + min_size.h high.
C6_StoredRectKeepsMinimum ==
    \A i \in 1..Len(window_states) :
        IsSome(window_states[i]) =>
            LET win == Unwrap(window_states[i])
            IN  /\ win.rect.w >= MinTotalSize(win).w
                /\ win.rect.h >= MinTotalSize(win).h

----------------------------------------------------------------------------
(* SpecAnchor: a small area.  Window 0 is dragged to the edges of the area   *)
(* and takes anchors; every window is collapsed and expanded.                *)

DraggableIds == {0}

NextAnchor ==
    \/ NextId(MaxWins)
    \/ \E id \in AllocatedIds : EnsureInit(id, InitialStates)
    \/ \E id \in AllocatedIds : SetWinCollapsed(id)
    \/ SetDimensions(Dimensions)
    \/ \E id \in DraggableIds \cap AllocatedIds : WinDragStart(id, DragHitTests)
    \/ WinDragUpdate(DragOffsets)
    \/ WinDragEnd

SpecAnchor == Init /\ [][NextAnchor]_vars

\* a step that is set_win_collapsed on an initialised window
CollapseCall ==
    /\ last_call'.op = "set_win_collapsed"
    /\ IsSome(Slot(St, last_call'.id))

----------------------------------------------------------------------------
(* SpecLife: z-order and life cycle.  Three windows are allocated,           *)
(* initialised, raised, marked needed or not, swept and dragged.              *)

\* at most this many next_id calls in SpecLife
MaxLiveWins == 3

LifeDragOffsets == {<<Lg(20), Lg(20)>>}

NextLife ==
    \/ NextId(MaxLiveWins)
    \/ \E id \in AllocatedIds : EnsureInit(id, {PlainInitialState})
    \/ \E id \in AllocatedIds : BringToTop(id)
    \/ \E id \in AllocatedIds : SetNeeded(id)
    \/ SweepUnneeded
    \/ \E id \in AllocatedIds : WinDragStart(id, {"TitleBarOrDragArea"})
    \/ WinDragUpdate(LifeDragOffsets)
    \/ WinDragEnd

SpecLife == Init /\ [][NextLife]_vars

\* C1: bottom_to_top_list[window_z_orders[w]] = w for every allocated window
\* w, and bottom_to_top_list is a permutation of the allocated WinIds.
C1_ZOrderInvariant ==
    /\ Len(window_z_orders) = Len(window_states)
    /\ Len(bottom_to_top_list) = Len(window_states)
    /\ \A w \in AllocatedIds :
           /\ window_z_orders[w + 1] \in 0..(Len(bottom_to_top_list) - 1)
           /\ bottom_to_top_list[window_z_orders[w + 1] + 1] = w
    /\ {bottom_to_top_list[i] : i \in 1..Len(bottom_to_top_list)} = AllocatedIds
    /\ \A i, j \in 1..Len(bottom_to_top_list) :
           bottom_to_top_list[i] = bottom_to_top_list[j] => i = j

\* C1 witness: with three windows, one of them without state, a
\* win_drag_update has raised the window it drags from the bottom over the two
\* others.
C1_Witness ==
    /\ last_call.op = "win_drag_update"
    /\ last_call.ret
    /\ bottom_to_top_list = <<1, 2, 0>>
    /\ window_z_orders = <<2, 0, 1>>
    /\ \E id \in AllocatedIds : ~IsSome(Slot(St, id))

----------------------------------------------------------------------------
(* SpecFreed: slots that are empty.  Windows are initialised and swept, and  *)
(* the setters are called on every allocated id, initialised or not.         *)

SetRects == {Rect(Lg(10), Lg(10), Lg(200), Lg(100))}

NextFreed ==
    \/ NextId(MaxWins)
    \/ \E id \in AllocatedIds : EnsureInit(id, {PlainInitialState})
    \/ \E id \in AllocatedIds : SetNeeded(id)
    \/ SetAllNeeded
    \/ SweepUnneeded
    \/ \E id \in AllocatedIds : SetWinHidden(id)
    \/ \E id \in AllocatedIds : SetWinCollapsed(id)
    \/ \E id \in AllocatedIds : SetWinMinSize(id, MinSizes)
    \/ \E id \in AllocatedIds : SetWinNormalRect(id, SetRects)
    \/ \E id \in AllocatedIds : SetWinNormalRectInt(id, SetRects)

SpecFreed == Init /\ [][NextFreed]_vars

\* the allocated WinIds whose slot is empty: freed or never initialised
EmptyIds == {id \in AllocatedIds : ~IsSome(Slot(St, id))}

\* positions a hit test is asked for (logical)
HitPositions == {<<Lg(x), Lg(y)>> : x \in {0, 105, 150}, y \in {0, 105, 150}}

SlotSetters == {"set_needed", "set_win_hidden", "set_win_collapsed",
                "set_win_min_size", "set_win_normal_rect",
                "set_win_normal_rect_int"}

\* C9: for a WinId whose slot is freed or was never initialised the rectangle
\* queries and specific_win_hit_test return None, and a call of set_needed,
\* set_win_hidden, set_win_collapsed, set_win_min_size or
\* set_win_normal_rect(_int) leaves the whole windowing state unchanged.
C9_EmptySlotIsInert ==
    [][/\ \A id \in EmptyIds :
              /\ win_normal_rect(St, id) = None
              /\ win_normal_rect_int(St, id) = None
              /\ win_display_rect(St, id) = None
              /\ win_display_rect_int(St, id) = None
              /\ \A pos \in HitPositions : specific_win_hit_test(St, id, pos) = None
       /\ (last_call'.op \in SlotSetters /\ last_call'.id \in EmptyIds)
              => UNCHANGED engine_vars]_vars

\* C9 witness: set_win_hidden(id, true) was called on an empty slot while
\* another window is initialised, and the slot is still empty.
C9_Witness ==
    /\ last_call.op = "set_win_hidden"
    /\ last_call.flag
    /\ last_call.id \in EmptyIds
    /\ \E id \in AllocatedIds : IsSome(Slot(St, id))

----------------------------------------------------------------------------
(* SpecTotal: every mutating operation, called with every WinId a caller can *)
(* make up, allocated or not.                                                 *)

\* at most this many next_id calls in SpecTotal
MaxTotalWins == 1

\* every WinId a caller can make up: the allocated ones and one more
TotalIds == 0..MaxTotalWins

TotalDragOffsets == {<<Lg(20), Lg(20)>>}

NextTotal ==
    \/ NextId(MaxTotalWins)
    \/ \E id \in TotalIds : EnsureInit(id, {PlainInitialState})
    \/ \E id \in TotalIds : BringToTop(id)
    \/ \E id \in TotalIds : SetNeeded(id)
    \/ \E id \in TotalIds : SetWinHidden(id)
    \/ \E id \in TotalIds : SetWinCollapsed(id)
    \/ \E id \in TotalIds : SetWinMinSize(id, MinSizes)
    \/ \E id \in TotalIds : WinDragStart(id, DragHitTests)
    \/ WinDragUpdate(TotalDragOffsets)
    \/ WinDragEnd
    \/ SetDimensions(Dimensions)
    \/ EnsureAllWinInArea
    \/ SweepUnneeded

SpecTotal == Init /\ [][NextTotal]_vars

\* the operations that take a WinId
IdOps == {"ensure_init", "bring_to_top", "set_needed", "set_win_hidden",
          "set_win_collapsed", "set_win_min_size", "win_drag_start"}

\* C10 as stated: no mutating operation ends in a fatal error, whatever the
\* state and the WinId.
C10_NoFatalError == ~panicked

\* C10 amended: a mutating operation completes without a fatal error for
\* every WinId that next_id has returned, and the operations without a WinId
\* always do; called with a WinId that next_id has not returned yet
\* (bring_to_top on a state with no windows included) an operation panics.
C10_FatalOnlyForUnallocatedId ==
    [][panicked' <=> (last_call'.op \in IdOps /\ last_call'.id \notin AllocatedIds)]_vars

\* C10 witness: bring_to_top was called for an allocated window whose slot was
\* swept while it was being dragged, and nothing failed.
C10_Witness ==
    /\ ~panicked
    /\ last_call.op = "bring_to_top"
    /\ last_call.id \in EmptyIds
    /\ DraggedId # -1
    /\ bottom_to_top_list[Len(bottom_to_top_list)] = last_call.id

----------------------------------------------------------------------------
(* SpecFrame: the per-frame protocol.  Each frame is one update, with one    *)
(* input event, followed by make_window calls for the windows the            *)
(* application wants this frame.                                             *)

FrameDimensions == {<<<<Lg(400), Lg(300)>>, 1>>}

\* a press on a window's frame, a drag that began on the title bar of a window
\* at (100, 100), a release, or no event
FrameEvents ==
    {NoEvent, [kind |-> "Release"]}
    \cup {[kind |-> "Press", win_id |-> id] : id \in 0..(MaxWins - 1)}
    \cup {[kind |-> "Drag", origin |-> <<Lg(150), Lg(110)>>,
            delta |-> <<Lg(20), Lg(20)>>]}

Builders ==
    {[initial_size |-> Some(<<Lg(150), Lg(50)>>), initial_position |-> Some(<<Lg(100), Lg(100)>>),
      min_size |-> None, is_collapsible |-> TRUE, is_collapsed |-> None,
      is_hidden |-> hidden] : hidden \in BOOLEAN}

NextFrame ==
    \/ NextId(MaxWins)
    \/ Update(FrameDimensions, FrameEvents)
    \/ \E id \in AllocatedIds : MakeWindow(id, Builders)

SpecFrame == Init /\ [][NextFrame]_vars


\* the frame protocol's invariant between calls: an initialised window is
\* marked needed exactly if make_window has requested it in the current frame
NeededIffRequested ==
    \A id \in AllocatedIds :
        IsSome(Slot(St, id)) =>
            (Unwrap(Slot(St, id)).is_needed <=> id \in widget.requested)

\* C8: under the per-frame protocol a window requested through make_window
\* during a frame is still initialised, with its state intact, after the
\* sweep of the next frame's update, and a window that was not requested is
\* freed by that sweep; sweep_unneeded frees exactly the slots whose is_needed
\* flag is false and leaves every other slot unchanged.
C8_SweepFollowsRequests ==
    [][/\ NeededIffRequested
       /\ last_call'.op = "update" =>
              LET swept == sweep_unneeded(St)
              IN  \A id \in AllocatedIds :
                      /\ (IsSome(Slot(St, id)) /\ id \in widget.requested)
                             => /\ Slot(swept, id) = Slot(St, id)
                                /\ IsSome(window_states'[id + 1])
                      /\ id \notin widget.requested
                             => /\ Slot(swept, id) = None
                                /\ window_states'[id + 1] = None
                      /\ Slot(swept, id) =
                             IF IsSome(Slot(St, id)) /\ Unwrap(Slot(St, id)).is_needed
                             THEN Slot(St, id) ELSE None]_vars

\* C8 witness: an update has swept window 1, which was being dragged and was
\* not requested in the frame before, and has kept window 0, which was.
C8_Witness ==
    /\ last_call.op = "update"
    /\ DraggedId = 1
    /\ widget.maybe_dragging_win = Some(TRUE)
    /\ ~IsSome(Slot(St, 1))
    /\ IsSome(Slot(St, 0))

----------------------------------------------------------------------------
(* Allocation and z-order, under SpecLife *)

\* C11 as stated: after sweep_unneeded has freed a slot, next_id hands out an
\* id that was allocated before (a freed slot is recycled).
C11_NextIdRecyclesFreedSlot ==
    [][(last_call.op = "sweep_unneeded" /\ last_call.changed
        /\ last_call'.op = "next_id")
          => last_call'.id \in EmptyIds]_vars

\* C11 amended: next_id never returns an id it has returned before: it
\* always appends a new empty slot, whose index is the id, and leaves every
\* slot there was, freed ones included, as it is; a freed slot is only filled
\* again by ensure_init with the same id.
C11_NextIdAlwaysAllocatesNewIndex ==
    [][last_call'.op = "next_id" =>
          /\ last_call'.id = Len(window_states)
          /\ last_call'.id \notin AllocatedIds
          /\ window_states' = Append(window_states, None)]_vars

\* C11 witness: next_id has returned the new id 1 while slot 0, freed by a
\* sweep during its drag, stays empty.
C11_Witness ==
    /\ last_call.op = "next_id"
    /\ last_call.id = 1
    /\ DraggedId = 0
    /\ ~IsSome(Slot(St, 0))
    /\ Len(window_states) = 2

\* C12 as stated: next_id appends an empty slot and ranks the new id below
\* all existing windows, so that topmost_win is unchanged when windows exist.
C12_NextIdAtBottom ==
    [][last_call'.op = "next_id" =>
          /\ last_call'.id = Len(window_states)
          /\ window_states' = Append(window_states, None)
          /\ window_states # <<>> =>
                 /\ window_z_orders'[last_call'.id + 1] = 0
                 /\ topmost_win(St)' = topmost_win(St)]_vars

\* C12 amended: next_id appends an empty slot (the id is win_count before the
\* call, win_count grows by one) and puts the new id at the top of the
\* z-order: its rank is win_count - 1, the ranks of the other windows are
\* kept, and topmost_win is the new id.
C12_NextIdAtTop ==
    [][last_call'.op = "next_id" =>
          /\ last_call'.id = Len(window_states)
          /\ Len(window_states') = Len(window_states) + 1
          /\ window_states' = Append(window_states, None)
          /\ window_z_orders' = Append(window_z_orders, last_call'.id)
          /\ bottom_to_top_list' = Append(bottom_to_top_list, last_call'.id)
          /\ topmost_win(St)' = Some(last_call'.id)]_vars

\* C12 witness: next_id has returned id 2 while window 0 was on top of
\* window 1, and id 2 is now the topmost.
C12_Witness ==
    /\ last_call.op = "next_id"
    /\ last_call.id = 2
    /\ bottom_to_top_list = <<1, 0, 2>>
    /\ IsSome(Slot(St, 0))
    /\ IsSome(Slot(St, 1))

\* C13: bring_to_top(id) makes id the topmost window with rank win_count - 1,
\* keeps the rank of every window that was below id, lowers by one the rank
\* of every window that was above it, and changes nothing else; for the
\* topmost window it changes nothing at all.
C13_BringToTopRotates ==
    [][last_call'.op = "bring_to_top" =>
          LET id == last_call'.id
              z == window_z_orders[id + 1]
          IN  /\ topmost_win(St)' = Some(id)
              /\ window_z_orders'[id + 1] = Len(window_states) - 1
              /\ \A w \in AllocatedIds \ {id} :
                     window_z_orders'[w + 1] =
                         IF window_z_orders[w + 1] < z THEN window_z_orders[w + 1]
                         ELSE window_z_orders[w + 1] - 1
              /\ UNCHANGED <<area_size, hidpi_factor, window_states, frame_metrics,
                             maybe_dragging_window, next_auto_position, panicked>>
              /\ topmost_win(St) = Some(id) => UNCHANGED engine_vars]_vars

\* C13 witness: bring_to_top(0) has raised window 0 from the bottom over
\* windows 2 and 1, which keep their order.
C13_Witness ==
    /\ last_call.op = "bring_to_top"
    /\ last_call.id = 0
    /\ bottom_to_top_list = <<2, 1, 0>>
    /\ window_z_orders = <<2, 1, 0>>
    /\ \A id \in AllocatedIds : IsSome(Slot(St, id))

----------------------------------------------------------------------------
(* SpecInit: creation of windows.  Windows are created with and without an   *)
(* explicit position, freed and created again, in a large and in a low area. *)

\* WindowInitialState values: the 150x100 client at (100, 100), a client
\* smaller than the default minimum at (50, 60), the same auto-placed, and an
\* auto-placed collapsed one with a minimum of its own
InitCases ==
    {[client_size |-> <<Lg(150), Lg(100)>>, position |-> Some(<<Lg(100), Lg(100)>>),
      min_size |-> None, is_collapsed |-> FALSE],
     [client_size |-> <<Lg(100), Lg(40)>>, position |-> Some(<<Lg(50), Lg(60)>>),
      min_size |-> None, is_collapsed |-> FALSE],
     [client_size |-> <<Lg(100), Lg(40)>>, position |-> None,
      min_size |-> None, is_collapsed |-> FALSE],
     [client_size |-> <<Lg(150), Lg(100)>>, position |-> None,
      min_size |-> Some(<<Lg(160), Lg(60)>>), is_collapsed |-> TRUE]}

\* <<area_size, hidpi_factor>>
InitDimensions == {<<<<Lg(800), Lg(600)>>, 1>>, <<<<Lg(400), Lg(185)>>, 1>>}

NextInit ==
    \/ NextId(MaxWins)
    \/ \E id \in AllocatedIds : EnsureInit(id, InitCases)
    \/ \E id \in AllocatedIds : BringToTop(id)
    \/ \E id \in AllocatedIds : SetNeeded(id)
    \/ SweepUnneeded
    \/ SetDimensions(InitDimensions)

SpecInit == Init /\ [][NextInit]_vars

\* the WindowInitialState values an ensure_init step on a slot that was empty
\* can have been called with
InitsOfStep == {init \in InitCases : St' = ensure_init(St, last_call'.id, init)}

\* an ensure_init step on a slot that was empty
CreatingCall == last_call'.op = "ensure_init" /\ ~IsSome(Slot(St, last_call'.id))

\* the minimum size ensure_init takes for init
InitMinSize(init) ==
    IF IsSome(init.min_size) THEN Unwrap(init.min_size) ELSE <<Lg(150), Lg(50)>>

\* C14: ensure_init on an uninitialised slot with explicit position p, client
\* size c and minimum size m (150x50 when none is given) creates a window
\* whose normal rectangle is at p, max(c.w, m.w) + 2*border wide and
\* max(c.h, m.h) + 2*border + title_bar_height + gap_below_title_bar high.
C14_EnsureInitGeometry ==
    [][CreatingCall =>
          \A init \in InitsOfStep :
              IsSome(init.position) =>
                  LET m == InitMinSize(init)
                      rect == Rect(Unwrap(init.position)[1], Unwrap(init.position)[2],
                                   Max(init.client_size[1], m[1])
                                       + 2 * frame_metrics.border_thickness,
                                   Max(init.client_size[2], m[2])
                                       + 2 * frame_metrics.border_thickness
                                       + frame_metrics.title_bar_height
                                       + frame_metrics.gap_below_title_bar)
                  IN  /\ Unwrap(window_states'[last_call'.id + 1]).rect = rect
                      /\ win_normal_rect(St', last_call'.id) = Some(rect)]_vars

\* C14 witness: in the 800x600 area at hidpi 1 the 150x100 client at
\* (100, 100) has become a 158x127 window at (100, 100).
C14_Witness ==
    /\ last_call.op = "ensure_init"
    /\ area_size = <<Lg(800), Lg(600)>>
    /\ hidpi_factor = 1
    /\ bottom_to_top_list = <<0, 1>>
    /\ IsSome(Slot(St, 1))
    /\ win_normal_rect(St, 1) = Some(Rect(Lg(100), Lg(100), Lg(158), Lg(127)))

\* C15: ensure_init on an uninitialised slot makes that window the topmost
\* one, needed, not hidden and without anchors; on an initialised slot it
\* changes nothing, the z-order and the auto-position cursor included.
C15_EnsureInitRaisesOnce ==
    [][last_call'.op = "ensure_init" =>
          IF IsSome(Slot(St, last_call'.id))
          THEN UNCHANGED engine_vars
          ELSE LET win == Unwrap(window_states'[last_call'.id + 1])
               IN  /\ IsSome(window_states'[last_call'.id + 1])
                   /\ topmost_win(St') = Some(last_call'.id)
                   /\ win_z_order(St', last_call'.id) = Len(window_states) - 1
                   /\ win.is_needed
                   /\ ~win.is_hidden
                   /\ win.anchor_x = "None"
                   /\ win.anchor_y = "None"]_vars

\* C15 witness: ensure_init has created window 0, which was allocated before
\* the initialised window 1, and window 0 is on top.
C15_Witness ==
    /\ last_call.op = "ensure_init"
    /\ last_call.id = 0
    /\ last_call.changed
    /\ bottom_to_top_list = <<1, 0>>
    /\ IsSome(Slot(St, 1))
    /\ next_auto_position # <<Lg(32), Lg(32)>>

\* C16: without an explicit position ensure_init places the window at the
\* auto-position cursor, or at (32 + (cursor.x - cursor.y) + 24, 32) when
\* cursor.y + height exceeds the area height, and moves the cursor to that
\* place + (16, 16); such a window with 32 + height <= area height ends
\* within the area height, it is not where the auto-placed window before it
\* was put, and nothing else moves the cursor.
C16_AutoPositionCascade ==
    [][/\ ~CreatingCall => UNCHANGED next_auto_position
       /\ CreatingCall =>
              \A init \in InitsOfStep :
                  LET rect == Unwrap(window_states'[last_call'.id + 1]).rect
                      cur == next_auto_position
                  IN  IF IsSome(init.position)
                      THEN UNCHANGED next_auto_position
                      ELSE /\ <<rect.x, rect.y>> =
                                  IF cur[2] + rect.h > area_size[2]
                                  THEN <<Lg(32) + (cur[1] - cur[2]) + Lg(24), Lg(32)>>
                                  ELSE cur
                           /\ next_auto_position' = <<rect.x + Lg(16), rect.y + Lg(16)>>
                           /\ Lg(32) + rect.h <= area_size[2]
                                  => rect.y + rect.h <= area_size[2]
                           /\ <<rect.x, rect.y>> # <<cur[1] - Lg(16), cur[2] - Lg(16)>>]_vars

\* C16 witness: in the 185 high area an auto-placed window did not fit below
\* the cursor and has started a new diagonal at (56, 32).
C16_Witness ==
    /\ last_call.op = "ensure_init"
    /\ last_call.changed
    /\ area_size = <<Lg(400), Lg(185)>>
    /\ next_auto_position = <<Lg(72), Lg(48)>>
    /\ Unwrap(Slot(St, last_call.id)).rect.x = Lg(56)
    /\ Unwrap(Slot(St, last_call.id)).rect.y = Lg(32)

----------------------------------------------------------------------------
(* SpecSession: windows are created, hidden, collapsed and dragged by the    *)
(* title bar or the right border.  One drag to the left takes a window from  *)
(* its initial position to the left edge of the area, and the next one from  *)
(* there to the left side of a window that is still at the initial position. *)

\* logical offsets
SnapOffsets == {<<Lg(-84), 0>>}

NextSession ==
    \/ NextId(MaxWins)
    \/ \E id \in AllocatedIds : EnsureInit(id, {PlainInitialState})
    \/ \E id \in AllocatedIds : SetWinHidden(id)
    \/ \E id \in AllocatedIds : SetWinCollapsed(id)
    \/ \E id \in AllocatedIds : WinDragStart(id, DragHitTests)
    \/ WinDragUpdate(SnapOffsets)
    \/ WinDragEnd

SpecSession == Init /\ [][NextSession]_vars

\* a step that is set_win_hidden or set_win_collapsed on an initialised window
\* with the value the window already has
SameValueSetterCall ==
    /\ last_call'.op \in {"set_win_hidden", "set_win_collapsed"}
    /\ IsSome(Slot(St, last_call'.id))
    /\ last_call'.flag = IF last_call'.op = "set_win_hidden"
                         THEN win_is_hidden(St, last_call'.id)
                         ELSE win_is_collapsed(St, last_call'.id)

\* C17: set_win_hidden(id, v) and set_win_collapsed(id, v) called with the
\* value the window already has change nothing in the state, and after any
\* call of either setter a second call with the same value changes nothing
C17_SameValueSetterIsNoOp ==
    [][/\ SameValueSetterCall => St' = St
       /\ last_call'.op = "set_win_hidden" =>
              set_win_hidden(St', last_call'.id, last_call'.flag) = St'
       /\ last_call'.op = "set_win_collapsed" =>
              set_win_collapsed(St', last_call'.id, last_call'.flag) = St']_vars

\* set_win_hidden(id, FALSE) has just been called on a visible window that is
\* being dragged away from the area edge it is anchored to, and nothing moved
C17_Witness ==
    /\ last_call.op = "set_win_hidden"
    /\ ~last_call.flag
    /\ ~last_call.changed
    /\ DraggedId = last_call.id
    /\ IsSome(Slot(St, last_call.id))
    /\ ~win_is_hidden(St, last_call.id)
    /\ win_recompute_snapping_rect(St, last_call.id) # St

\* win_drag_start(id, ht) called in state s succeeds: the window is
\* initialised, not hidden, and not collapsed with ht a border or corner
DragStartAllowed(s, id, ht) ==
    /\ IsSome(Slot(s, id))
    /\ ~Unwrap(Slot(s, id)).is_hidden
    /\ ~(Unwrap(Slot(s, id)).is_collapsed /\ ht \in ResizeHitTests)

\* C20: win_drag_start(id, ht) returns true exactly when the window is
\* initialised, not hidden, and not collapsed with ht a border or corner; when
\* it returns true current_dragging_win() is Some((id, ht)); at most one drag
\* session exists at any time; after win_drag_end, aborting or not,
\* current_dragging_win() is None
C20_DragSession ==
    [][/\ last_call'.op = "win_drag_start" =>
              /\ last_call'.ret <=> DragStartAllowed(St, last_call'.id, last_call'.ht)
              /\ last_call'.ret =>
                     current_dragging_win(St') = Some(<<last_call'.id, last_call'.ht>>)
       /\ last_call'.op = "win_drag_end" => current_dragging_win(St') = None
       /\ Len(maybe_dragging_window') <= 1]_vars

\* a drag has just been started on one window while another one was being
\* dragged, and there is a window on which win_drag_start by the right border
\* is refused
C20_Witness ==
    /\ last_call.op = "win_drag_start"
    /\ last_call.ret
    /\ last_call.was_dragging \notin {-1, last_call.id}
    /\ current_dragging_win(St) = Some(<<last_call.id, last_call.ht>>)
    /\ \E id \in AllocatedIds :
          /\ IsSome(Slot(St, id))
          /\ ~DragStartAllowed(St, id, "RightBorder")

----------------------------------------------------------------------------
(* SpecDisplay: the display rectangle.  Every window is visible.  Windows    *)
(* are created at the top-left snap position of a 190 wide area or half a    *)
(* pixel off the grid, collapsed, expanded and resized by the right border:  *)
(* widened by 16, a window at the snap position touches both the left and    *)
(* the right edge of the area.                                               *)

\* <<area_size, hidpi_factor>>
DisplayDimensions == {<<<<Lg(190), Lg(185)>>, 1>>}

DisplayInits ==
    {[client_size |-> <<Lg(150), Lg(50)>>, position |-> Some(<<Lg(8), Lg(8)>>),
      min_size |-> None, is_collapsed |-> FALSE]}
    \cup {init \in InitialStates : init.is_collapsed}

\* logical offsets
DisplayOffsets == {<<Lg(-92), Lg(-92)>>, <<Lg(16), Lg(16)>>}

NextDisplay ==
    \/ NextId(MaxWins)
    \/ \E id \in AllocatedIds : EnsureInit(id, DisplayInits)
    \/ \E id \in AllocatedIds : SetWinCollapsed(id)
    \/ SetDimensions(DisplayDimensions)
    \/ \E id \in AllocatedIds : WinDragStart(id, {"RightBorder"})
    \/ WinDragUpdate(DisplayOffsets)
    \/ WinDragEnd

SpecDisplay == Init /\ [][NextDisplay]_vars

\* win_display_rect and win_display_rect_int of every visible window of s are
\* the normal rectangle, or for a collapsed window the collapsed frame at the
\* normal rectangle's top-left
DisplayRectFollowsNormalRect(s) ==
    \A id \in 0..(Len(s.window_states) - 1) :
        (IsSome(Slot(s, id)) /\ ~win_is_hidden(s, id)) =>
            LET fm == s.frame_metrics
                normal == Unwrap(win_normal_rect(s, id))
                normal_int == Unwrap(win_normal_rect_int(s, id))
            IN  IF win_is_collapsed(s, id)
                THEN /\ win_display_rect(s, id) =
                            Some(Rect(normal.x, normal.y, fm.collapsed_win_width,
                                      fm.title_bar_height + 2 * fm.border_thickness))
                     /\ win_display_rect_int(s, id) =
                            Some(Rect(normal_int.x, normal_int.y,
                                      RoundPx(fm.collapsed_win_width, s.hidpi_factor),
                                      RoundPx(fm.title_bar_height
                                              + 2 * fm.border_thickness, s.hidpi_factor)))
                ELSE /\ win_display_rect(s, id) = win_normal_rect(s, id)
                     /\ win_display_rect_int(s, id) = win_normal_rect_int(s, id)

\* a step that is set_win_collapsed(id, TRUE) on a visible window that was not
\* collapsed
CollapsingCall ==
    /\ last_call'.op = "set_win_collapsed"
    /\ last_call'.flag
    /\ IsSome(Slot(St, last_call'.id))
    /\ ~win_is_hidden(St, last_call'.id)
    /\ ~win_is_collapsed(St, last_call'.id)

\* C18 as stated: for a visible window the display rectangle equals the
\* normal rectangle when the window is not collapsed and is the collapsed
\* frame at the same top-left when it is, and collapsing a window leaves the
\* width and height win_normal_rect reports unchanged
C18_CollapsingKeepsNormalSize ==
    [][/\ DisplayRectFollowsNormalRect(St')
       /\ CollapsingCall =>
              /\ Unwrap(win_normal_rect(St', last_call'.id)).w
                     = Unwrap(win_normal_rect(St, last_call'.id)).w
              /\ Unwrap(win_normal_rect(St', last_call'.id)).h
                     = Unwrap(win_normal_rect(St, last_call'.id)).h]_vars

\* C18, amended: the relation between display and normal rectangle holds in
\* every state; collapsing leaves the width (height) win_normal_rect reports
\* unchanged unless the window is anchored to both the lower and the upper
\* edge of the area on that axis, where the width (height) becomes the larger
\* of the window's minimum and the area's extent less the two snap margins
C18_DisplayRectFollowsNormalRect ==
    [][/\ DisplayRectFollowsNormalRect(St')
       /\ CollapsingCall =>
              LET win == Unwrap(Slot(St, last_call'.id))
                  before == Unwrap(win_normal_rect_int(St, last_call'.id))
                  after == Unwrap(win_normal_rect_int(St', last_call'.id))
                  area == AreaSizePx(St)
                  min == MinSizePx(St, win)
              IN  /\ after.w = IF win.anchor_x = "LowerAndUpperEdges"
                               THEN Max(min.w, area.w - 2 * SnapMargin(St))
                               ELSE before.w
                  /\ after.h = IF win.anchor_y = "LowerAndUpperEdges"
                               THEN Max(min.h, area.h - 2 * SnapMargin(St))
                               ELSE before.h]_vars

\* a visible window wider than the collapsed frame has just been collapsed:
\* its display rectangle has the collapsed width, its normal rectangle not
C18_Witness ==
    /\ last_call.op = "set_win_collapsed"
    /\ last_call.flag
    /\ last_call.changed
    /\ IsSome(win_display_rect(St, last_call.id))
    /\ Unwrap(win_display_rect(St, last_call.id)).w = frame_metrics.collapsed_win_width
    /\ Unwrap(win_normal_rect(St, last_call.id)).w > frame_metrics.collapsed_win_width

----------------------------------------------------------------------------
(* SpecHidden: windows are created, hidden, shown, clamped to the area and   *)
(* dragged by the title bar.                                                 *)

NextHidden ==
    \/ NextId(MaxWins)
    \/ \E id \in AllocatedIds : EnsureInit(id, {PlainInitialState})
    \/ \E id \in AllocatedIds : SetWinHidden(id)
    \/ EnsureAllWinInArea
    \/ \E id \in AllocatedIds : WinDragStart(id, {"TitleBarOrDragArea"})
    \/ WinDragUpdate(SnapOffsets)
    \/ WinDragEnd

SpecHidden == Init /\ [][NextHidden]_vars

\* the initialised windows of s that are hidden
HiddenIds(s) ==
    {id \in 0..(Len(s.window_states) - 1) :
        IsSome(Slot(s, id)) /\ Unwrap(Slot(s, id)).is_hidden}

\* the WinIds of the entries of a list of snap candidates
CandidateIds(candidates) == {candidates[k].win_id : k \in 1..Len(candidates)}

\* the queries, the clamping and win_drag_start pass over the hidden window id
HiddenFromQueries(s, id) ==
    /\ win_display_rect(s, id) = None
    /\ win_display_rect_int(s, id) = None
    /\ \A pos \in HitPositions :
          /\ specific_win_hit_test(s, id, pos) = None
          /\ IsSome(win_hit_test(s, pos)) => Unwrap(win_hit_test(s, pos))[1] # id
          /\ \A f \in SUBSET (0..(Len(s.window_states) - 1)) :
                IsSome(win_hit_test_filtered(s, pos, f)) =>
                    Unwrap(win_hit_test_filtered(s, pos, f))[1] # id
    /\ Unwrap(Slot(ensure_all_win_in_area(s), id)).rect = Unwrap(Slot(s, id)).rect
    /\ \A ht \in DragHitTests : ~win_drag_start(s, id, ht).ret

\* the drag that is active on another window holds no snap candidate of the
\* hidden window id
HiddenFromSnapping(s, id) ==
    IsSome(s.maybe_dragging_window) =>
        LET dragging_state == Unwrap(s.maybe_dragging_window)
        IN  dragging_state.win_id # id =>
                /\ id \notin CandidateIds(dragging_state.snap_candidates_x)
                /\ id \notin CandidateIds(dragging_state.snap_candidates_y)

\* C19: a hidden window is excluded everywhere: specific_win_hit_test and
\* win_display_rect(_int) return None for it, win_hit_test and
\* win_hit_test_filtered never return it, ensure_all_win_in_area leaves its
\* rectangle unchanged, win_drag_start on it returns false, and it
\* contributes no snap candidate to a drag of another window
C19_HiddenWindowExcluded ==
    \A id \in HiddenIds(St) : HiddenFromQueries(St, id) /\ HiddenFromSnapping(St, id)

----------------------------------------------------------------------------
(* The dragged window is raised, under SpecLife *)

\* C21: after every win_drag_update call that returns true, the dragged
\* window is the topmost window, whatever bring_to_top calls on other windows
\* happened since the drag started
C21_DraggedWindowIsTopmost ==
    (last_call.op = "win_drag_update" /\ last_call.ret) =>
        /\ IsSome(maybe_dragging_window)
        /\ topmost_win(St) = Some(DraggedId)

\* win_drag_update has just returned true for window 0, the first window
\* created, with two windows created after it
C21_Witness ==
    /\ last_call.op = "win_drag_update"
    /\ last_call.ret
    /\ DraggedId = 0
    /\ Len(bottom_to_top_list) = 3
    /\ topmost_win(St) = Some(0)

----------------------------------------------------------------------------
(* SpecSnap: snapping to other windows.  Up to three windows are created at  *)
(* (100, 100) or (110, 100) and window 0 is dragged by the title bar.  A     *)
(* window at x = 100 gives the line x = -66, and the offsets put the target  *)
(* 12, 11 and 5 pixels from it; a window at x = 110 adds the line x = -56.   *)
(* Dragged up by 88, window 0 comes within the threshold of the area's top   *)
(* edge (y = 8) and of the line above a window at y = 100 (y = 15).  In the  *)
(* 400 x 185 area a window at y = 100 is at the bottom snap position.        *)

SnapInits ==
    {[client_size |-> <<Lg(150), Lg(50)>>, position |-> Some(<<Lg(x), Lg(100)>>),
      min_size |-> None, is_collapsed |-> FALSE] : x \in {100, 110}}

\* logical offsets
SnapStepOffsets ==
    {<<Lg(-154), 0>>, <<Lg(-155), 0>>, <<Lg(-161), 0>>, <<0, Lg(-88)>>}

\* the window that is dragged; the other windows stay where they are created
SnapDraggedIds == {0}

NextSnap ==
    \/ NextId(MaxLiveWins)
    \/ \E id \in AllocatedIds : EnsureInit(id, SnapInits)
    \/ SetDimensions(Dimensions)
    \/ \E id \in SnapDraggedIds \cap AllocatedIds :
          WinDragStart(id, {"TitleBarOrDragArea"})
    \/ WinDragUpdate(SnapStepOffsets)
    \/ WinDragEnd

SpecSnap == Init /\ [][NextSnap]_vars

\* RoundPx of the offset's component on axis d
OffsetPx(s, offset, d) ==
    RoundPx(IF d = "Horizontal" THEN offset[1] ELSE offset[2], s.hidpi_factor)

\* pairs of offsets that differ by at most one device pixel on each axis
NearOffsets(s) ==
    {p \in SnapStepOffsets \X SnapStepOffsets :
        \A d \in {"Horizontal", "Vertical"} :
            Abs(OffsetPx(s, p[1], d) - OffsetPx(s, p[2], d)) <= 1}

\* the snap candidates of the running drag of s on axis d
DragCandidates(s, d) ==
    IF d = "Horizontal" THEN Unwrap(s.maybe_dragging_window).snap_candidates_x
    ELSE Unwrap(s.maybe_dragging_window).snap_candidates_y

\* last_snapped of the running drag of s on axis d
DragLastSnapped(s, d) ==
    IF d = "Horizontal" THEN Unwrap(s.maybe_dragging_window).last_snapped_x
    ELSE Unwrap(s.maybe_dragging_window).last_snapped_y

\* the segment the running drag of s snapped to on axis d on its last update.
\* Only used where DragLastSnapped is Some
SnappedSegment(s, d) == DragCandidates(s, d)[Unwrap(DragLastSnapped(s, d)) + 1].seg

\* the device-pixel position on axis d of the window that is dragged in s
DraggedPos(s, d) ==
    PosDim(Unwrap(win_normal_rect_int(s, Unwrap(s.maybe_dragging_window).win_id)), d)

\* the position on axis d a move drag of s aims at with this offset
MoveTarget(s, offset, d) ==
    PosDim(Unwrap(s.maybe_dragging_window).starting_rect, d) + OffsetPx(s, offset, d)

\* a move to position t on axis d is within the snap threshold of one of the
\* area's two snap positions
AreaInReach(s, t, d) ==
    LET display == Unwrap(win_display_rect_int(s, Unwrap(s.maybe_dragging_window).win_id))
    IN  \/ Abs(t - SnapMargin(s)) < SnapThreshold(s)
        \/ Abs(t - (SizeDim(AreaSizePx(s), d) - SnapMargin(s) - SizeDim(display, d)))
               < SnapThreshold(s)

\* the segment's range overlaps the dragged window's display rectangle
SegmentOverlaps(s, seg, d) ==
    overlaps_with(seg.dim_range,
        RectRange(Unwrap(win_display_rect_int(s, Unwrap(s.maybe_dragging_window).win_id)),
                  PerpendicularDir(d)))

\* if the drag of s1 is snapped to a window on axis d, it is on the same line
\* after win_drag_update(offset)
SnapHeld(s1, offset, d) ==
    IsSome(DragLastSnapped(s1, d)) =>
        DraggedPos(win_drag_update(s1, offset).st, d)
            = SnappedSegment(s1, d).perpendicular_dim

\* if the drag of s1 is snapped to a window on axis d: the window stays on
\* that line and candidate after win_drag_update(offset) when the new target
\* is less than the threshold from the line, the segment still overlaps the
\* window and no area edge is in reach; it leaves the line when the new
\* target is the threshold or more away from it
SnapHeldInReach(s1, offset, d) ==
    IsSome(DragLastSnapped(s1, d)) =>
        LET seg == SnappedSegment(s1, d)
            t == MoveTarget(s1, offset, d)
            s2 == win_drag_update(s1, offset).st
        IN  /\ (/\ Abs(t - seg.perpendicular_dim) < SnapThreshold(s1)
                /\ SegmentOverlaps(s1, seg, d)
                /\ ~AreaInReach(s1, t, d)) =>
                    /\ DraggedPos(s2, d) = seg.perpendicular_dim
                    /\ DragLastSnapped(s2, d) = DragLastSnapped(s1, d)
            /\ Abs(t - seg.perpendicular_dim) >= SnapThreshold(s1) =>
                    DraggedPos(s2, d) # seg.perpendicular_dim

\* C22 as stated: once a dragged edge has snapped to another window's edge, a
\* further win_drag_update whose offset differs by at most 1 device pixel
\* never releases the snap: the edge stays on the same candidate line
C22_SnapNeverReleased ==
    IsSome(maybe_dragging_window) =>
        \A p \in NearOffsets(St) : \A d \in {"Horizontal", "Vertical"} :
            SnapHeld(win_drag_update(St, p[1]).st, p[2], d)

\* C22, amended: a further win_drag_update keeps the edge on the candidate
\* line it snapped to exactly while the new target is less than the snap
\* threshold away from the line (and the segment still overlaps the window
\* and no area edge is in reach); a target 12 device pixels away releases it
C22_SnapHeldInReach ==
    IsSome(maybe_dragging_window) =>
        \A p \in NearOffsets(St) : \A d \in {"Horizontal", "Vertical"} :
            SnapHeldInReach(win_drag_update(St, p[1]).st, p[2], d)

\* the dragged window is snapped to the line x = -66 of another window, from
\* a target 11 pixels away, and the offset one pixel further releases it
C22_Witness ==
    /\ last_call.op = "win_drag_update"
    /\ IsSome(maybe_dragging_window)
    /\ IsSome(DragLastSnapped(St, "Horizontal"))
    /\ DraggedPos(St, "Horizontal") = -66
    /\ St = win_drag_update(St, <<Lg(-155), 0>>).st
    /\ MoveTarget(St, <<Lg(-155), 0>>, "Horizontal") = -55
    /\ DraggedPos(win_drag_update(St, <<Lg(-154), 0>>).st, "Horizontal") = -54

----------------------------------------------------------------------------
(* SpecAxes: what a drag does on each axis.  In the 800 x 600 area a window  *)
(* is created at (100, 100) or (16, 100), 158 x 77 with its frame, and       *)
(* dragged by the title bar, the content, the top-left and the bottom-right  *)
(* corner.  The offsets are whole and half logical pixels; near (16, 100)    *)
(* the area's left edge (x = 8) is within the snap threshold.                *)

AxesDimensions == {<<<<Lg(800), Lg(600)>>, 1>>}

AxesInits ==
    {[client_size |-> <<Lg(150), Lg(50)>>, position |-> Some(<<Lg(x), Lg(100)>>),
      min_size |-> None, is_collapsed |-> FALSE] : x \in {100, 16}}

AxesHitTests == {"TitleBarOrDragArea", "Content", "TopLeftCorner", "BottomRightCorner"}

\* logical offsets, in half logical pixels: (5, 5), (5.5, -2.5) and (-5, 0)
AxesOffsets == {<<Lg(5), Lg(5)>>, <<11, -5>>, <<Lg(-5), 0>>}

\* the window that is dragged
AxesDraggedIds == {0}

\* the frame of a window that is where ensure_init put it
AxesAtCreation(s, id) ==
    /\ InBounds(s, id)
    /\ \E init \in AxesInits :
           win_normal_rect_int(s, id)
               = Some(Rect(RoundPx(Unwrap(init.position)[1], s.hidpi_factor),
                           RoundPx(Unwrap(init.position)[2], s.hidpi_factor), 158, 77))

\* a drag starts on a window that has not been moved or resized yet
NextAxes ==
    \/ NextId(MaxWins)
    \/ \E id \in AllocatedIds : EnsureInit(id, AxesInits)
    \/ SetDimensions(AxesDimensions)
    \/ \E id \in AxesDraggedIds \cap AllocatedIds :
          AxesAtCreation(St, id) /\ WinDragStart(id, AxesHitTests)
    \/ WinDragUpdate(AxesOffsets)
    \/ WinDragEnd

SpecAxes == Init /\ [][NextAxes]_vars

\* no snap applies to a move to MoveTarget(s, offset, d): no area edge is in
\* reach, and no candidate that overlaps the dragged window is
NoSnapApplies(s, offset, d) ==
    /\ ~AreaInReach(s, MoveTarget(s, offset, d), d)
    /\ \A i \in 1..Len(DragCandidates(s, d)) :
           ~(/\ SegmentOverlaps(s, DragCandidates(s, d)[i].seg, d)
             /\ Abs(MoveTarget(s, offset, d) - DragCandidates(s, d)[i].seg.perpendicular_dim)
                    < SnapThreshold(s))

\* n half device pixels, rounded to whole device pixels, half away from zero
RoundHalfAwayFromZero(n) ==
    IF n % 2 = 0 THEN n \div 2
    ELSE IF n > 0 THEN (n + 1) \div 2 ELSE (n - 1) \div 2

\* s2 is s1 after win_drag_update(offset) and s3 is s2 after
\* win_drag_end(false): on an axis where no snap applies the window is at the
\* drag's start position plus the rounded offset, its size is the start
\* size, and the end of the drag keeps the rectangle
MoveLanded(s1, s2, s3, offset) ==
    LET dragging == Unwrap(s1.maybe_dragging_window)
        start == dragging.starting_rect
        rect == Unwrap(win_normal_rect_int(s2, dragging.win_id))
    IN  /\ NoSnapApplies(s1, offset, "Horizontal") =>
               rect.x = start.x + RoundHalfAwayFromZero(offset[1] * s1.hidpi_factor)
        /\ NoSnapApplies(s1, offset, "Vertical") =>
               rect.y = start.y + RoundHalfAwayFromZero(offset[2] * s1.hidpi_factor)
        /\ rect.w = start.w
        /\ rect.h = start.h
        /\ ~IsSome(s3.maybe_dragging_window)
        /\ win_normal_rect_int(s3, dragging.win_id) = Some(rect)
        /\ win_normal_rect(s3, dragging.win_id) = win_normal_rect(s2, dragging.win_id)

\* win_drag_update(offset) and win_drag_end(false) on the title-bar drag of s1
MoveFollowsOffset(s1, offset) ==
    \E s2 \in {win_drag_update(s1, offset).st} :
        MoveLanded(s1, s2, win_drag_end(s2, FALSE), offset)

\* the title-bar drag of s: every offset, as the first update and after an
\* update with any other offset
MoveFollowsLatestOffset(s) ==
    \A offset \in AxesOffsets :
        /\ MoveFollowsOffset(s, offset)
        /\ \A earlier \in AxesOffsets :
               MoveFollowsOffset(win_drag_update(s, earlier).st, offset)

\* C23: in a title-bar drag, on an axis where no snap applies, win_drag_update
\* puts the window at the drag's start position plus round(offset * hidpi)
\* and keeps its size; the offset is cumulative, so the result depends only on
\* the latest offset; win_drag_end(false) keeps the rectangle
C23_TitleBarDragFollowsOffset ==
    \A id \in AllocatedIds :
        \E r \in {win_drag_start(St, id, "TitleBarOrDragArea")} :
            r.ret => MoveFollowsLatestOffset(r.st)

\* in the 800 x 600 area the window created at (100, 100) has been dragged
\* by (5, 5) and the drag has ended without abort: the window is at (105, 105)
C23_Witness ==
    /\ last_call.op = "win_drag_end"
    /\ ~last_call.flag
    /\ last_call.was_dragging = 0
    /\ area_size = <<Lg(800), Lg(600)>>
    /\ win_normal_rect_int(St, 0) = Some(Rect(105, 105, 158, 77))

\* the hit tests on the lower (left, top) and on the upper (right, bottom)
\* side of axis d
LowerSideHitTests(d) ==
    IF d = "Horizontal" THEN {"LeftBorder", "TopLeftCorner", "BottomLeftCorner"}
    ELSE {"TopBorder", "TopLeftCorner", "TopRightCorner"}

UpperSideHitTests(d) ==
    IF d = "Horizontal" THEN {"RightBorder", "TopRightCorner", "BottomRightCorner"}
    ELSE {"BottomBorder", "BottomLeftCorner", "BottomRightCorner"}

\* the 1D action of a hit test on axis d, as a table
ActionOfHitTest(ht, d) ==
    IF ht = "TitleBarOrDragArea" THEN "MoveWindow"
    ELSE IF ht \in LowerSideHitTests(d) THEN "ResizeLower"
    ELSE IF ht \in UpperSideHitTests(d) THEN "ResizeUpper"
    ELSE "None"

\* what the 1D action keeps of the start rectangle on axis d
AxisFollowsAction(action, start, rect, d) ==
    CASE action = "None" ->
             /\ PosDim(rect, d) = PosDim(start, d)
             /\ SizeDim(rect, d) = SizeDim(start, d)
      [] action = "MoveWindow" -> SizeDim(rect, d) = SizeDim(start, d)
      [] action = "ResizeUpper" -> PosDim(rect, d) = PosDim(start, d)
      [] OTHER -> PosDim(rect, d) + SizeDim(rect, d)
                      = PosDim(start, d) + SizeDim(start, d)

\* s2 is the state after a win_drag_update of the drag of s1
DragFollowsActions(s1, s2) ==
    LET dragging == Unwrap(s1.maybe_dragging_window)
    IN  \A d \in {"Horizontal", "Vertical"} :
            AxisFollowsAction(ActionOfHitTest(dragging.dragging_hit_test, d),
                              dragging.starting_rect,
                              Unwrap(win_normal_rect_int(s2, dragging.win_id)), d)

\* the drag of s: every offset, as the first update and after an update with
\* any other offset
EveryUpdateFollowsActions(s) ==
    \A offset \in AxesOffsets :
        /\ DragFollowsActions(s, win_drag_update(s, offset).st)
        /\ \A earlier \in AxesOffsets :
               \E s1 \in {win_drag_update(s, earlier).st} :
                   DragFollowsActions(s1, win_drag_update(s1, offset).st)

\* C24: the hit tests map to the 1D actions as in the table, and after
\* win_drag_update each axis keeps what its action keeps: None the start
\* position and size, MoveWindow the start size, ResizeUpper the start
\* position, ResizeLower the start upper edge (position + size)
C24_AxisFollowsAction ==
    /\ \A ht \in HitTest : \A d \in {"Horizontal", "Vertical"} :
           to_drag_action_1d(ht, d) = ActionOfHitTest(ht, d)
    /\ \A id \in AllocatedIds : \A ht \in HitTest :
           \E r \in {win_drag_start(St, id, ht)} :
               r.ret => EveryUpdateFollowsActions(r.st)

\* the window created at (100, 100) is dragged by its top-left corner with
\* offset (-5, 0): it is 5 wider with the same right edge, and as high as it was
C24_Witness ==
    /\ last_call.op = "win_drag_update"
    /\ last_call.ret
    /\ IsSome(maybe_dragging_window)
    /\ Unwrap(maybe_dragging_window).dragging_hit_test = "TopLeftCorner"
    /\ Unwrap(maybe_dragging_window).starting_rect = Rect(100, 100, 158, 77)
    /\ win_normal_rect_int(St, 0) = Some(Rect(95, 100, 163, 77))

\* candidate i of the drag of s on axis d overlaps the dragged window and is
\* less than the threshold from t
CandidateInReach(s, i, t, d) ==
    /\ SegmentOverlaps(s, DragCandidates(s, d)[i].seg, d)
    /\ Abs(t - DragCandidates(s, d)[i].seg.perpendicular_dim) < SnapThreshold(s)

\* the first candidate in registration order that is in reach of t, or 0
FirstCandidateInReach(s, t, d) ==
    IF \E i \in 1..Len(DragCandidates(s, d)) : CandidateInReach(s, i, t, d)
    THEN CHOOSE i \in 1..Len(DragCandidates(s, d)) :
             /\ CandidateInReach(s, i, t, d)
             /\ \A j \in 1..(i - 1) : ~CandidateInReach(s, j, t, d)
    ELSE 0

\* the position a move to t on axis d ends at, by the order of preference:
\* the area's lower and upper snap positions, the candidate of the previous
\* update, the first candidate in reach, t itself
PreferredSnap(s, t, d) ==
    LET display == Unwrap(win_display_rect_int(s, Unwrap(s.maybe_dragging_window).win_id))
        lower == SnapMargin(s)
        upper == SizeDim(AreaSizePx(s), d) - SnapMargin(s) - SizeDim(display, d)
        last == DragLastSnapped(s, d)
        first == FirstCandidateInReach(s, t, d)
    IN  IF Abs(t - lower) < SnapThreshold(s) THEN lower
        ELSE IF Abs(t - upper) < SnapThreshold(s) THEN upper
        ELSE IF IsSome(last) /\ CandidateInReach(s, Unwrap(last) + 1, t, d)
        THEN DragCandidates(s, d)[Unwrap(last) + 1].seg.perpendicular_dim
        ELSE IF first # 0 THEN DragCandidates(s, d)[first].seg.perpendicular_dim
        ELSE t

\* win_drag_update(offset) on the title-bar drag of s ends at the preferred
\* snap on both axes
UpdatePicksPreferredSnap(s, offset) ==
    \A d \in {"Horizontal", "Vertical"} :
        DraggedPos(win_drag_update(s, offset).st, d)
            = PreferredSnap(s, MoveTarget(s, offset, d), d)

\* C25: on each axis of a title-bar drag win_drag_update picks (1) the area's
\* own edge position when the target is within the snap threshold of it, even
\* if a window candidate is too, (2) otherwise the candidate of the previous
\* update if it still overlaps and is within the threshold, (3) otherwise the
\* first such candidate in registration order, (4) otherwise the raw target
C25_SnapPriority ==
    IsSome(maybe_dragging_window) =>
        \A offset \in SnapStepOffsets :
            /\ UpdatePicksPreferredSnap(St, offset)
            /\ \A earlier \in SnapStepOffsets :
                   UpdatePicksPreferredSnap(win_drag_update(St, earlier).st, offset)

\* window 0, dragged up by 88 from y = 100, is on the area's top snap
\* position y = 8 although the target y = 12 is also within the threshold of
\* a candidate line that overlaps it
C25_Witness ==
    /\ last_call.op = "win_drag_update"
    /\ last_call.ret
    /\ IsSome(maybe_dragging_window)
    /\ St = win_drag_update(St, <<0, Lg(-88)>>).st
    /\ MoveTarget(St, <<0, Lg(-88)>>, "Vertical") = 12
    /\ DraggedPos(St, "Vertical") = 8
    /\ FirstCandidateInReach(St, 12, "Vertical") # 0

----------------------------------------------------------------------------
(* SpecGap: the gap between snapped windows.  Two windows are created at     *)
(* (100, 100), 158 x 77 with the frame; they are collapsed and expanded, and *)
(* dragged up by the title bar: 80 up from y = 100 the target y = 20 is      *)
(* within the threshold of the line y = 15 above the other window.           *)

GapOffsets == {<<0, Lg(-80)>>}

NextGap ==
    \/ NextId(MaxWins)
    \/ \E id \in AllocatedIds : EnsureInit(id, {PlainInitialState})
    \/ \E id \in AllocatedIds : SetWinCollapsed(id)
    \/ \E id \in AllocatedIds : WinDragStart(id, {"TitleBarOrDragArea"})
    \/ WinDragUpdate(GapOffsets)
    \/ WinDragEnd

SpecGap == Init /\ [][NextGap]_vars

\* the windows other than id that are initialised and not hidden
OtherVisibleIds(s, id) ==
    {j \in 0..(Len(s.window_states) - 1) :
        j # id /\ IsSome(Slot(s, j)) /\ ~Unwrap(Slot(s, j)).is_hidden}

\* a candidate list as the set of its <<WinId, line, range>>
CandidateLines(candidates) ==
    {<<candidates[k].win_id, candidates[k].seg.perpendicular_dim,
       candidates[k].seg.dim_range>> : k \in 1..Len(candidates)}

\* the candidates a drag of window id with this hit test gets on axis d from
\* the display rectangles of the other windows
LinesOfOthers(s, id, ht, d) ==
    LET own == Unwrap(win_display_rect_int(s, id))
        disp(j) == Unwrap(win_display_rect_int(s, j))
        range(j) == RectRange(disp(j), PerpendicularDir(d))
        action == ActionOfHitTest(ht, d)
    IN  CASE action = "MoveWindow" ->
               {<<j, PosDim(disp(j), d) - SnapMargin(s) - SizeDim(own, d), range(j)>> :
                    j \in OtherVisibleIds(s, id)}
               \cup {<<j, PosDim(disp(j), d) + SizeDim(disp(j), d) + SnapMargin(s), range(j)>> :
                    j \in OtherVisibleIds(s, id)}
          [] action = "ResizeLower" ->
               {<<j, PosDim(disp(j), d) + SizeDim(disp(j), d) + SnapMargin(s), range(j)>> :
                    j \in OtherVisibleIds(s, id)}
          [] action = "ResizeUpper" ->
               {<<j, PosDim(disp(j), d) - SnapMargin(s), range(j)>> :
                    j \in OtherVisibleIds(s, id)}
          [] OTHER -> {}

\* how many candidates that is
CountOfOthers(s, id, ht, d) ==
    CASE ActionOfHitTest(ht, d) = "MoveWindow" -> 2 * Cardinality(OtherVisibleIds(s, id))
      [] ActionOfHitTest(ht, d) = "None" -> 0
      [] OTHER -> Cardinality(OtherVisibleIds(s, id))

\* s is the state win_drag_start(id, ht) has left with return value true
CapturedFromOthers(s, id, ht) ==
    \A d \in {"Horizontal", "Vertical"} :
        /\ CandidateLines(DragCandidates(s, d)) = LinesOfOthers(s, id, ht, d)
        /\ Len(DragCandidates(s, d)) = CountOfOthers(s, id, ht, d)
        /\ \A k \in 1..Len(DragCandidates(s, d)) : DragCandidates(s, d)[k].win_id # id

\* win_drag_start captures, for every window and hit test, the lines of the
\* other visible windows and none of the dragged window
CandidatesCaptured ==
    \A id \in AllocatedIds : \A ht \in HitTest :
        \E r \in {win_drag_start(St, id, ht)} :
            r.ret => CapturedFromOthers(r.st, id, ht)

\* the display rectangles a and b are exactly the margin apart on axis d
MarginApart(s, a, b, d) ==
    \/ PosDim(a, d) + SizeDim(a, d) + SnapMargin(s) = PosDim(b, d)
    \/ PosDim(b, d) + SizeDim(b, d) + SnapMargin(s) = PosDim(a, d)

\* the dragged window of s is snapped on axis d to a window it is exactly the
\* margin apart from
SnappedAtMargin(s, d) ==
    IsSome(DragLastSnapped(s, d)) =>
        \E other \in {DragCandidates(s, d)[Unwrap(DragLastSnapped(s, d)) + 1].win_id} :
            /\ IsSome(win_display_rect_int(s, other))
            /\ MarginApart(s,
                   Unwrap(win_display_rect_int(s, Unwrap(s.maybe_dragging_window).win_id)),
                   Unwrap(win_display_rect_int(s, other)), d)

\* C26: the snap candidates win_drag_start captures come only from the other
\* initialised, non-hidden windows' display rectangles, never from the
\* dragged window: two lines per other window for MoveWindow, the upper
\* edges + margin for ResizeLower, the lower edges - margin for ResizeUpper,
\* none for None; and after a win_drag_update that snapped the window to
\* another window the two are exactly the snap margin apart
C26_SnapCandidates ==
    /\ CandidatesCaptured
    /\ (last_call.op = "win_drag_update" /\ last_call.ret) =>
           \A d \in {"Horizontal", "Vertical"} : SnappedAtMargin(St, d)

----------------------------------------------------------------------------
(* Anchors at the end of a drag, under SpecHidden *)

\* the size of the display rectangle a window has while it is shown
ShownDisplaySize(s, win) ==
    IF win.is_collapsed
    THEN [w |-> RoundPx(s.frame_metrics.collapsed_win_width, s.hidpi_factor),
          h |-> RoundPx(s.frame_metrics.title_bar_height
                        + s.frame_metrics.border_thickness * 2, s.hidpi_factor)]
    ELSE [w |-> RoundPx(win.rect.w, s.hidpi_factor),
          h |-> RoundPx(win.rect.h, s.hidpi_factor)]

\* the anchor that describes where the window is on axis d
AnchorOfPosition(s, win, d) ==
    LET pos == RoundPx(PosDim(win.rect, d), s.hidpi_factor)
        at_lower == pos = SnapMargin(s)
        at_upper == pos + SizeDim(ShownDisplaySize(s, win), d)
                        = SizeDim(AreaSizePx(s), d) - SnapMargin(s)
    IN  IF at_lower /\ at_upper THEN "LowerAndUpperEdges"
        ELSE IF at_lower THEN "LowerEdge"
        ELSE IF at_upper THEN "UpperEdge"
        ELSE "None"

\* window id of s has the anchors of its position, and its stored rectangle
\* is on the device-pixel grid
AnchorsMatchPosition(s, id) ==
    LET win == Unwrap(Slot(s, id))
    IN  /\ win.anchor_x = AnchorOfPosition(s, win, "Horizontal")
        /\ win.anchor_y = AnchorOfPosition(s, win, "Vertical")
        /\ Some(win.rect) = win_normal_rect(s, id)

\* C27: after win_drag_end(false) has ended a drag, the window's anchor is on
\* each axis LowerAndUpperEdges if its device-pixel position equals the snap
\* margin and position + display size equals area size - margin, LowerEdge
\* if only the first holds, UpperEdge if only the second holds and None
\* otherwise, and the stored rectangle equals the pixel-rounded rectangle
C27_DragEndSetsAnchors ==
    [][(/\ last_call'.op = "win_drag_end"
        /\ ~last_call'.flag
        /\ IsSome(maybe_dragging_window)
        /\ IsSome(Slot(St, DraggedId)))
       => AnchorsMatchPosition(St', DraggedId)]_vars

----------------------------------------------------------------------------
(* SpecResize: the area is resized.  One window is created at (100, 100),    *)
(* 158 x 77 with the frame, dragged by the title bar, hidden and shown,      *)
(* while the area changes between 174 x 185 and 190 x 200.  Dragged left by  *)
(* 84 it snaps to x = 8; in the 174 wide area its right side is then at the  *)
(* right snap position too, and in the 185 high area y = 100 is the bottom   *)
(* snap position.                                                            *)

ResizeDimensions == {<<<<Lg(174), Lg(185)>>, 1>>, <<<<Lg(190), Lg(200)>>, 1>>}

NextResize ==
    \/ NextId(MaxTotalWins)
    \/ \E id \in AllocatedIds : EnsureInit(id, {PlainInitialState})
    \/ \E id \in AllocatedIds : SetWinHidden(id)
    \/ SetDimensions(ResizeDimensions)
    \/ \E id \in AllocatedIds : WinDragStart(id, {"TitleBarOrDragArea"})
    \/ WinDragUpdate(SnapOffsets)
    \/ WinDragEnd

SpecResize == Init /\ [][NextResize]_vars

\* what an anchor asks of the axis d of a window in an area of this extent
AxisDerived(s, win, d) ==
    LET pos == RoundPx(PosDim(win.rect, d), s.hidpi_factor)
        size == RoundPx(SizeDim(win.rect, d), s.hidpi_factor)
        area == SizeDim(AreaSizePx(s), d)
        anchor == IF d = "Horizontal" THEN win.anchor_x ELSE win.anchor_y
    IN  CASE anchor = "LowerEdge" -> pos = SnapMargin(s)
          [] anchor = "UpperEdge" ->
                 pos + SizeDim(ShownDisplaySize(s, win), d) = area - SnapMargin(s)
          [] anchor = "LowerAndUpperEdges" ->
                 /\ pos = SnapMargin(s)
                 /\ size = Max(SizeDim(MinSizePx(s, win), d), area - 2 * SnapMargin(s))
          [] OTHER -> TRUE

\* the window in slot i of s2 is the window of s re-derived from its anchors
WinRederived(s, s2, i) ==
    LET old == Unwrap(s.window_states[i])
        new == Unwrap(s2.window_states[i])
    IN  /\ new.anchor_x = old.anchor_x
        /\ new.anchor_y = old.anchor_y
        /\ IF old.anchor_x = "None" /\ old.anchor_y = "None" THEN new.rect = old.rect
           ELSE /\ AxisDerived(s2, new, "Horizontal")
                /\ AxisDerived(s2, new, "Vertical")

\* a set_dimensions step that changes the area size or the hidpi factor
DimensionsChange ==
    /\ last_call'.op = "set_dimensions"
    /\ (area_size' # area_size \/ hidpi_factor' # hidpi_factor)

\* a set_dimensions step with the stored values changes nothing
SameDimensionsNoOp ==
    (/\ last_call'.op = "set_dimensions"
     /\ area_size' = area_size
     /\ hidpi_factor' = hidpi_factor) => St' = St

----------------------------------------------------------------------------
(* SpecClamp: a window is kept in the area.  It is created plain or          *)
(* collapsed near (100, 100), hidden and shown and dragged by the title bar; *)
(* the area is 400 x 185 or 100 x 10, which is narrower than a window and    *)
(* lower than a title bar.                                                   *)

ClampDimensions == {<<<<Lg(400), Lg(185)>>, 1>>, <<<<Lg(100), Lg(10)>>, 1>>}

NextClamp ==
    \/ NextId(MaxTotalWins)
    \/ \E id \in AllocatedIds : EnsureInit(id, InitialStates)
    \/ \E id \in AllocatedIds : SetWinHidden(id)
    \/ SetDimensions(ClampDimensions)
    \/ EnsureAllWinInArea
    \/ \E id \in DraggableIds \cap AllocatedIds : WinDragStart(id, {"TitleBarOrDragArea"})
    \/ WinDragUpdate(DragOffsets)
    \/ WinDragEnd

SpecClamp == Init /\ [][NextClamp]_vars

\* new is old with at most another position
OnlyMoved(old, new) ==
    new = [old EXCEPT !.rect = [@ EXCEPT !.x = new.rect.x, !.y = new.rect.y]]

\* s2 is s with at most the positions of visible windows changed
OnlyVisibleMoved(s, s2) ==
    /\ s2 = [s EXCEPT !.window_states = s2.window_states]
    /\ Len(s2.window_states) = Len(s.window_states)
    /\ \A i \in 1..Len(s.window_states) :
           IF ~IsSome(s.window_states[i]) \/ Unwrap(s.window_states[i]).is_hidden
           THEN s2.window_states[i] = s.window_states[i]
           ELSE /\ IsSome(s2.window_states[i])
                /\ OnlyMoved(Unwrap(s.window_states[i]), Unwrap(s2.window_states[i]))

\* the size of every visible window that is not collapsed is at most the area
\* size plus the two borders
SizesCapped(s) ==
    \A i \in 1..Len(s.window_states) :
        (/\ IsSome(s.window_states[i])
         /\ ~Unwrap(s.window_states[i]).is_hidden
         /\ ~Unwrap(s.window_states[i]).is_collapsed) =>
            /\ Unwrap(s.window_states[i]).rect.w
                   <= s.area_size[1] + 2 * s.frame_metrics.border_thickness
            /\ Unwrap(s.window_states[i]).rect.h
                   <= s.area_size[2] + 2 * s.frame_metrics.border_thickness

\* C29 as stated: ensure_all_win_in_area changes only the position of visible
\* windows, except that it also caps the width and height of a window that
\* is not collapsed when they exceed the area bounds plus the border
\* allowance
C29_ClampCapsSize ==
    [][last_call'.op = "ensure_all_win_in_area" =>
          /\ SizesCapped(St')
          /\ SizesCapped(St) => OnlyVisibleMoved(St, St')]_vars

\* C29, amended: ensure_all_win_in_area changes only the position of visible
\* windows and never a size, however large the window is for the area
C29_ClampMovesOnly ==
    [][last_call'.op = "ensure_all_win_in_area" => OnlyVisibleMoved(St, St')]_vars

\* in the 100 x 10 area ensure_all_win_in_area has moved a window that is
\* wider and higher than the area and is not collapsed, and it is 158 x 77
C29_Witness ==
    /\ last_call.op = "ensure_all_win_in_area"
    /\ last_call.changed
    /\ area_size = <<Lg(100), Lg(10)>>
    /\ \E id \in AllocatedIds :
           /\ IsSome(Slot(St, id))
           /\ ~Unwrap(Slot(St, id)).is_hidden
           /\ ~Unwrap(Slot(St, id)).is_collapsed
           /\ Unwrap(Slot(St, id)).rect.w = Lg(158)
           /\ Unwrap(Slot(St, id)).rect.h = Lg(77)

\* the range ensure_all_win_in_area is to bring the position of win into
WinInArea(s, win) ==
    LET border == s.frame_metrics.border_thickness
        display_width == IF win.is_collapsed THEN s.frame_metrics.collapsed_win_width
                         ELSE win.rect.w
        t == Min(s.frame_metrics.collapsed_win_width, display_width) - border
    IN  /\ t - display_width - border <= win.rect.x
        /\ win.rect.x <= s.area_size[1] - t
        /\ -border <= win.rect.y
        /\ win.rect.y <= s.area_size[2] - (border + s.frame_metrics.title_bar_height)

EveryVisibleWinInArea(s) ==
    \A i \in 1..Len(s.window_states) :
        (IsSome(s.window_states[i]) /\ ~Unwrap(s.window_states[i]).is_hidden) =>
            WinInArea(s, Unwrap(s.window_states[i]))

\* C30: after ensure_all_win_in_area, with t = min(collapsed_win_width,
\* display width) - border, every visible window has
\* t - display_width - border <= x <= area_w - t and
\* -border <= y <= area_h - (border + title_bar_height), for every area size,
\* and a second ensure_all_win_in_area changes nothing
C30_ClampedIntoArea ==
    last_call.op = "ensure_all_win_in_area" =>
        /\ EveryVisibleWinInArea(St)
        /\ ensure_all_win_in_area(St) = St

----------------------------------------------------------------------------
(* Raising and lowering the minimum size, under SpecMinSize *)

\* min_size arguments around the default 150 x 50: raised, lowered, raised in
\* one dimension only, and equal
MinSizeArgs ==
    {<<Lg(160), Lg(60)>>, <<Lg(100), Lg(40)>>, <<Lg(160), Lg(40)>>,
     <<Lg(100), Lg(60)>>, <<Lg(150), Lg(50)>>, <<Lg(200), Lg(50)>>}

\* s2 is s after set_win_min_size(id, m) on the initialised window id
MinSizeStored(s, s2, id, m) ==
    LET old == Unwrap(Slot(s, id))
        new == Unwrap(Slot(s2, id))
        border == s.frame_metrics.border_thickness
        raises == old.min_size.w < m[1] \/ old.min_size.h < m[2]
    IN  /\ s2 = SetSlot(s, id, new)
        /\ new = [old EXCEPT !.min_size = new.min_size,
                             !.rect = [@ EXCEPT !.w = new.rect.w, !.h = new.rect.h]]
        /\ new.min_size = [w |-> m[1], h |-> m[2]]
        /\ new.rect.w >= old.rect.w
        /\ new.rect.h >= old.rect.h
        /\ raises =>
               /\ new.rect.w >= 2 * border + m[1]
               /\ new.rect.h >= 2 * border + s.frame_metrics.title_bar_height + m[2]
        /\ ~raises => new.rect = old.rect

\* C31: set_win_min_size(id, m) stores m as the window's minimum; when m
\* raises the minimum in at least one dimension the rectangle is grown to
\* width >= 2*border + m.w and height >= 2*border + title_bar_height + m.h;
\* the window is never moved or shrunk, and a call that raises no dimension
\* leaves the rectangle unchanged
C31_MinSizeGrowsOnly ==
    \A id \in AllocatedIds :
        IsSome(Slot(St, id)) =>
            \A m \in MinSizeArgs :
                MinSizeStored(St, set_win_min_size(St, id, m), id, m)

\* set_win_min_size has raised the minimum of window 0 to 160 x 60 and grown
\* it from 158 x 77 to 168 x 86 where it was
C31_Witness ==
    /\ last_call.op = "set_win_min_size"
    /\ last_call.id = 0
    /\ last_call.changed
    /\ IsSome(Slot(St, 0))
    /\ Unwrap(Slot(St, 0)).min_size = [w |-> Lg(160), h |-> Lg(60)]
    /\ Unwrap(Slot(St, 0)).rect = Rect(Lg(100), Lg(100), Lg(168), Lg(86))

----------------------------------------------------------------------------
(* SpecHitTest: window_hit_test as a function of the window size, the        *)
(* relative position and the hidpi factor.  The arguments are drawn in the    *)
(* initial state and WindowHitTest applies the function to them.              *)

\* window sizes in logical pixels: narrower than two borders, a collapsed
\* title bar, a size with a half pixel, and one wider than six borders
HitSizes == {<<Lg(6), Lg(6)>>, <<Lg(20), Lg(26)>>, <<Lg(30) + 1, Lg(33)>>,
             <<Lg(40), Lg(50)>>}

HitFactors == {1, 2}

\* every half logical pixel from one pixel before the rectangle to one after
HitRelPositions(size) == {<<x, y>> : x \in -2..(size[1] + 2), y \in -2..(size[2] + 2)}

InitHitTest ==
    /\ area_size = <<Lg(16777216), Lg(16777216)>>
    /\ hidpi_factor \in HitFactors
    /\ window_states = <<>>
    /\ window_z_orders = <<>>
    /\ bottom_to_top_list = <<>>
    /\ frame_metrics = with_hidpi_factor(hidpi_factor)
    /\ maybe_dragging_window = None
    /\ next_auto_position = <<Lg(32), Lg(32)>>
    /\ panicked = FALSE
    /\ \E size \in HitSizes : \E pos \in HitRelPositions(size) :
           last_call = [op |-> "new", window_size |-> size, rel_pos |-> pos,
                        ret |-> None]
    /\ drag_origin = None
    /\ widget = [maybe_dragging_win |-> None, frames_len |-> 0, requested |-> {}]

WindowHitTest ==
    /\ last_call.op = "new"
    /\ last_call' = [last_call EXCEPT
           !.op = "window_hit_test",
           !.ret = window_hit_test(last_call.window_size, last_call.rel_pos,
                                   hidpi_factor, frame_metrics)]
    /\ UNCHANGED <<engine_vars, drag_origin, widget>>

NextHitTest == WindowHitTest

SpecHitTest == InitHitTest /\ [][NextHitTest]_vars

\* the regions the banding rules allow for the device pixel (x, y) of a
\* w x h window with border b and title bar t
BandRegions(w, h, x, y, b, t) ==
    LET in_l == x <= b
        in_r == x > w - b
        in_t == y <= b
        in_b == y > h - b
        near_l == x <= 3 * b
        near_r == x > w - 3 * b
        near_t == y <= 3 * b
        near_b == y > h - 3 * b
        corners == {r \in {"TopLeftCorner", "TopRightCorner",
                           "BottomLeftCorner", "BottomRightCorner"} :
                       \/ r = "TopLeftCorner" /\ in_l /\ in_t
                       \/ r = "TopRightCorner" /\ in_r /\ in_t
                       \/ r = "BottomLeftCorner" /\ in_l /\ in_b
                       \/ r = "BottomRightCorner" /\ in_r /\ in_b}
        promoted == {r \in {"TopLeftCorner", "TopRightCorner",
                            "BottomLeftCorner", "BottomRightCorner"} :
                       \/ r = "TopLeftCorner" /\ ((in_l /\ near_t) \/ (in_t /\ near_l))
                       \/ r = "TopRightCorner" /\ ((in_r /\ near_t) \/ (in_t /\ near_r))
                       \/ r = "BottomLeftCorner" /\ ((in_l /\ near_b) \/ (in_b /\ near_l))
                       \/ r = "BottomRightCorner" /\ ((in_r /\ near_b) \/ (in_b /\ near_r))}
        edges == {r \in {"LeftBorder", "RightBorder", "TopBorder", "BottomBorder"} :
                       \/ r = "LeftBorder" /\ in_l
                       \/ r = "RightBorder" /\ in_r
                       \/ r = "TopBorder" /\ in_t
                       \/ r = "BottomBorder" /\ in_b}
    IN  IF corners # {} THEN corners
        ELSE IF promoted # {} THEN promoted
        ELSE IF edges # {} THEN edges
        ELSE IF b < y /\ y <= b + t THEN {"TitleBarOrDragArea"}
        ELSE {"Content"}

\* the regions allowed for the arguments of the last call
CallRegions ==
    BandRegions(RoundPx(last_call.window_size[1], hidpi_factor),
                RoundPx(last_call.window_size[2], hidpi_factor),
                RoundPx(last_call.rel_pos[1], hidpi_factor),
                RoundPx(last_call.rel_pos[2], hidpi_factor),
                RoundPx(frame_metrics.border_thickness, hidpi_factor),
                RoundPx(frame_metrics.title_bar_height, hidpi_factor))

OutsideRect(size, pos) ==
    pos[1] < 0 \/ pos[2] < 0 \/ pos[1] > size[1] \/ pos[2] > size[2]

\* the opposite bands and leeways of the window do not meet
SixBordersWide ==
    /\ RoundPx(last_call.window_size[1], hidpi_factor)
           >= 6 * RoundPx(frame_metrics.border_thickness, hidpi_factor)
    /\ RoundPx(last_call.window_size[2], hidpi_factor)
           >= 6 * RoundPx(frame_metrics.border_thickness, hidpi_factor)

----------------------------------------------------------------------------
(* SpecTopmost: hit testing over overlapping windows that are raised,        *)
(* hidden, collapsed and swept.                                               *)

\* two overlapping windows, the second at x = 110.5
TopmostInits ==
    {[client_size |-> <<Lg(150), Lg(50)>>, position |-> Some(<<Lg(100), Lg(100)>>),
      min_size |-> None, is_collapsed |-> FALSE],
     [client_size |-> <<Lg(150), Lg(50)>>, position |-> Some(<<Lg(110) + 1, Lg(110)>>),
      min_size |-> None, is_collapsed |-> FALSE]}

NextTopmost ==
    \/ NextId(MaxWins)
    \/ \E id \in AllocatedIds : EnsureInit(id, TopmostInits)
    \/ \E id \in AllocatedIds : BringToTop(id)
    \/ \E id \in AllocatedIds : SetWinHidden(id)
    \/ \E id \in AllocatedIds : SetWinCollapsed(id)
    \/ \E id \in AllocatedIds : SetNeeded(id)
    \/ SweepUnneeded

SpecTopmost == Init /\ [][NextTopmost]_vars

\* the initialised windows that are not hidden
ShownIds(s) ==
    {id \in 0..(Len(s.window_states) - 1) :
        IsSome(Slot(s, id)) /\ ~Unwrap(Slot(s, id)).is_hidden}

RectContains(r, pos) ==
    /\ r.x <= pos[1] /\ pos[1] <= r.x + r.w
    /\ r.y <= pos[2] /\ pos[2] <= r.y + r.h

\* the display rectangle of the shown window id contains pos
DisplayRectContains(s, id, pos) ==
    RectContains(Unwrap(win_display_rect(s, id)), pos)

\* the rectangle that is tested for the shown window id contains pos: the
\* display rectangle of a collapsed window, the stored rectangle otherwise
TestedRectContains(s, id, pos) ==
    IF Unwrap(Slot(s, id)).is_collapsed THEN DisplayRectContains(s, id, pos)
    ELSE RectContains(Unwrap(Slot(s, id)).rect, pos)

\* positions on, half a pixel before and half a pixel after the edges of the
\* stored and the display rectangles of the shown windows, and inside them
ProbeOffsets(size) == {-1, 0, 1, Lg(30), size - 1, size, size + 1}

ProbeRects(s) ==
    {Unwrap(Slot(s, id)).rect : id \in ShownIds(s)}
        \cup {Unwrap(win_display_rect(s, id)) : id \in ShownIds(s)}

ProbePositions(s) ==
    UNION {{<<r.x + dx, q.y + dy>> : dx \in ProbeOffsets(r.w), dy \in ProbeOffsets(q.h)} :
              <<r, q>> \in ProbeRects(s) \X ProbeRects(s)}

\* ret is the highest ranked of the windows in hit, with its region at pos,
\* and no window among ids ranked above it is hit
TopmostOf(s, pos, ids, hit, ret) ==
    IF hit = {} THEN ret = None
    ELSE /\ IsSome(ret)
         /\ Unwrap(ret)[1] \in hit
         /\ \A id \in hit : s.window_z_orders[id + 1] <= s.window_z_orders[Unwrap(ret)[1] + 1]
         /\ Some(Unwrap(ret)[2]) = specific_win_hit_test(s, Unwrap(ret)[1], pos)
         /\ \A id \in ids :
                s.window_z_orders[id + 1] > s.window_z_orders[Unwrap(ret)[1] + 1]
                    => specific_win_hit_test(s, id, pos) = None

----------------------------------------------------------------------------
(* Re-initialising a swept slot, under SpecLife *)

\* the step initialises the empty slot id
ReinitStep(id) ==
    /\ last_call'.op = "ensure_init"
    /\ last_call'.id = id
    /\ InBounds(St, id)
    /\ ~IsSome(Slot(St, id))

\* the window in slot id of s is the one ensure_init builds from init with an
\* explicit position
FreshFromInit(s, id, init) ==
    LET fm == s.frame_metrics
        min_size == IF IsSome(init.min_size) THEN Unwrap(init.min_size)
                    ELSE <<Lg(150), Lg(50)>>
    IN  /\ IsSome(Slot(s, id))
        /\ Unwrap(Slot(s, id)) =
               [rect |-> Rect(Unwrap(init.position)[1], Unwrap(init.position)[2],
                              Max(init.client_size[1], min_size[1])
                                  + 2 * fm.border_thickness,
                              Max(init.client_size[2], min_size[2])
                                  + 2 * fm.border_thickness + fm.title_bar_height
                                  + fm.gap_below_title_bar),
                min_size |-> [w |-> min_size[1], h |-> min_size[2]],
                is_hidden |-> FALSE,
                is_collapsed |-> init.is_collapsed,
                is_needed |-> TRUE,
                anchor_x |-> "None",
                anchor_y |-> "None"]

\* a drag session names the window id
DragSessionOn(s, id) ==
    IsSome(s.maybe_dragging_window) /\ Unwrap(s.maybe_dragging_window).win_id = id

\* the re-initialised window is built from the init values only
ReinitFromInitValues ==
    [][\A id \in AllocatedIds :
          ReinitStep(id) => FreshFromInit(St', id, PlainInitialState)]_vars

\* C34: when ensure_init initialises a slot (one freed by sweep_unneeded
\* included) the new window's state comes from the init values only, and no
\* drag session of a previous occupant of the slot is left to move or resize
\* the new window
C34_ReinitStartsFresh ==
    [][\A id \in AllocatedIds :
          ReinitStep(id) =>
              /\ FreshFromInit(St', id, PlainInitialState)
              /\ ~DragSessionOn(St', id)]_vars

----------------------------------------------------------------------------
(* make_window with the events of the frame: the clicks that the WindowFrame *)
(* reports for its collapse button and the left double clicks on the frame.   *)

\* the double clicks on the frame of win_id whose position is on the title bar
title_bar_double_click_count(s5, win_id, double_clicks) ==
    Cardinality({i \in 1..Len(double_clicks) :
        specific_win_hit_test(s5, win_id, double_clicks[i])
            = Some("TitleBarOrDragArea")})

\* the toggle whenever there was a click or a title-bar double click
make_window_toggles_on_any(collapse_clicked, double_click_count) ==
    collapse_clicked + double_click_count > 0

\* (event.collapse_clicked.0 as u32 + title_bar_double_click_count) % 2 == 1
make_window_toggles(collapse_clicked, double_click_count) ==
    (collapse_clicked + double_click_count) % 2 = 1

\* make_window's results for a window whose builder settings gave s5: the
\* WindowEvent and the WindowSetter, which stands for the window's widget ids
make_window_returns(s5, builder, win_id, collapse_clicked, count) ==
    IF builder.is_hidden
    THEN [event |-> [collapse_clicked |-> 0, title_bar_double_click_count |-> 0],
          setter |-> None]
    ELSE [event |-> [collapse_clicked |-> collapse_clicked,
                     title_bar_double_click_count |-> count],
          setter |-> IF win_is_collapsed(s5, win_id) THEN None ELSE Some(win_id)]

make_window_counted(s, s5, w, builder, win_id, collapse_clicked, count) ==
    [st |-> make_window(s, w, builder, win_id,
                        make_window_toggles(collapse_clicked, count)),
     returns |-> make_window_returns(s5, builder, win_id, collapse_clicked, count)]

make_window_set(s, s5, w, builder, win_id, collapse_clicked, double_clicks) ==
    make_window_counted(s, s5, w, builder, win_id, collapse_clicked,
        title_bar_double_click_count(s5, win_id, double_clicks))

\* WindowingContext::make_window with its return value: [st, returns]
make_window_events(s, w, builder, win_id, collapse_clicked, double_clicks) ==
    make_window_set(s,
        make_window_settings(
            set_needed(
                ensure_init(s, win_id,
                    [client_size |-> IF IsSome(builder.initial_size)
                                     THEN Unwrap(builder.initial_size)
                                     ELSE <<Lg(200), Lg(200)>>,
                     position |-> builder.initial_position,
                     min_size |-> builder.min_size,
                     is_collapsed |-> FALSE]),
                win_id, TRUE),
            builder, win_id),
        w, builder, win_id, collapse_clicked, double_clicks)

\* one make_window call of the frame, with the frame's clicks
MakeWindowEvents(id, builders, clicks, double_clicks) ==
    \E builder \in builders, collapse_clicked \in clicks, dbl \in double_clicks :
        \E r \in {make_window_events(St, WidgetState, builder, id,
                                     collapse_clicked, dbl)} :
            /\ ~panicked
            /\ id < widget.frames_len
            /\ WithinRange(r.st)
            /\ SetEngine(r.st)
            /\ last_call' = [op |-> "make_window", id |-> id, builder |-> builder,
                             event |-> r.returns.event, setter |-> r.returns.setter]
            /\ drag_origin' = IF ~IsSome(r.st.maybe_dragging_window) THEN None
                              ELSE drag_origin
            /\ widget' = [widget EXCEPT !.requested = @ \cup {id}]

----------------------------------------------------------------------------
(* SpecCollapse: frames of windows made with every combination of the        *)
(* builder's is_collapsible, collapse and is_hidden settings.                 *)

CollapseBuilders ==
    {[initial_size |-> Some(<<Lg(150), Lg(50)>>),
      initial_position |-> Some(<<Lg(100), Lg(100)>>),
      min_size |-> None, is_collapsible |-> collapsible, is_collapsed |-> collapsed,
      is_hidden |-> hidden] :
        collapsible \in BOOLEAN, collapsed \in {None, Some(FALSE), Some(TRUE)},
        hidden \in BOOLEAN}

Clicks == 0..2

\* double clicks on the title bar, at (150, 110), and on the content, at (150, 150)
DoubleClicks ==
    {<<>>, <<<<Lg(150), Lg(110)>>>>, <<<<Lg(150), Lg(150)>>>>,
     <<<<Lg(150), Lg(110)>>, <<Lg(150), Lg(110)>>>>,
     <<<<Lg(150), Lg(110)>>, <<Lg(150), Lg(150)>>>>}

CollapseEvents == {NoEvent, [kind |-> "Release"]}

NextCollapse ==
    \/ NextId(MaxWins)
    \/ Update(FrameDimensions, CollapseEvents)
    \/ \E id \in AllocatedIds :
           MakeWindowEvents(id, CollapseBuilders, Clicks, DoubleClicks)

SpecCollapse == Init /\ [][NextCollapse]_vars

\* the collapsed state of window id as the call found it; a window that the
\* call initialises starts un-collapsed
CollapsedBefore(id) ==
    IF IsSome(Slot(St, id)) THEN Unwrap(Slot(St, id)).is_collapsed ELSE FALSE

\* the clicks the call's WindowEvent reports
ReportedClicks(event) == event.collapse_clicked + event.title_bar_double_click_count

\* the collapsed state of the call's window: toggled on an odd number of
\* clicks when it is collapsible and not set, v after collapse(v), and
\* un-collapsed when it is not collapsible
CollapsedAsBuilt(s2, id, builder, event) ==
    Unwrap(Slot(s2, id)).is_collapsed =
        IF ~builder.is_collapsible THEN FALSE
        ELSE IF IsSome(builder.is_collapsed) THEN Unwrap(builder.is_collapsed)
        ELSE IF ReportedClicks(event) % 2 = 1 THEN ~CollapsedBefore(id)
        ELSE CollapsedBefore(id)

\* the collapsed state with which the call set the window's frame: the state
\* the builder's settings gave, before this frame's clicks toggle it
CollapsedAsShown(id, builder) ==
    IF ~builder.is_collapsible THEN FALSE
    ELSE IF IsSome(builder.is_collapsed) THEN Unwrap(builder.is_collapsed)
    ELSE CollapsedBefore(id)

\* C35: after make_window a collapsible window without an explicit status
\* is toggled exactly when the reported collapse clicks plus title-bar double
\* clicks are odd, a window built with collapse(v) is v whatever was clicked,
\* and a window that is not collapsible is un-collapsed; the call returns no
\* WindowSetter exactly when the window is hidden or was collapsed when its
\* frame was set, before this frame's clicks toggled it
C35_CollapseFollowsBuilder ==
    [][last_call'.op = "make_window" =>
          /\ CollapsedAsBuilt(St', last_call'.id, last_call'.builder, last_call'.event)
          /\ last_call'.setter = None <=>
                 \/ last_call'.builder.is_hidden
                 \/ CollapsedAsShown(last_call'.id, last_call'.builder)]_vars

\* C35 as stated: a window that is hidden or collapsed after make_window got
\* no WindowSetter
C35_NoSetterWhenCollapsed ==
    [][last_call'.op = "make_window" =>
          /\ CollapsedAsBuilt(St', last_call'.id, last_call'.builder, last_call'.event)
          /\ (\/ last_call'.builder.is_hidden
              \/ Unwrap(Slot(St', last_call'.id)).is_collapsed)
                 => last_call'.setter = None]_vars

\* a collapsed window, made collapsible without a status, was clicked once
\* and double clicked twice on its title bar: it is un-collapsed and the call
\* returned no WindowSetter
C35_Witness ==
    /\ last_call.op = "make_window"
    /\ last_call.builder.is_collapsible
    /\ last_call.builder.is_collapsed = None
    /\ ~last_call.builder.is_hidden
    /\ last_call.event = [collapse_clicked |-> 1, title_bar_double_click_count |-> 2]
    /\ ~Unwrap(Slot(St, last_call.id)).is_collapsed
    /\ last_call.setter = None

----------------------------------------------------------------------------
(* SpecDimRange: DimRange::new and DimRange::overlaps_with as functions of   *)
(* their arguments, which are drawn in the initial state.                     *)

\* the values of the unit tests of dim.rs
DimValues == {1, 2, 5, 10, 11, 15, 20}

InitDimRange ==
    /\ area_size = <<Lg(16777216), Lg(16777216)>>
    /\ hidpi_factor = 1
    /\ window_states = <<>>
    /\ window_z_orders = <<>>
    /\ bottom_to_top_list = <<>>
    /\ frame_metrics = with_hidpi_factor(1)
    /\ maybe_dragging_window = None
    /\ next_auto_position = <<Lg(32), Lg(32)>>
    /\ panicked = FALSE
    /\ \E a \in DimValues \X DimValues, b \in DimValues \X DimValues :
           last_call = [op |-> "new", a |-> a, b |-> b, d1 |-> None, d2 |-> None,
                        ret |-> FALSE, ret_swapped |-> FALSE]
    /\ drag_origin = None
    /\ widget = [maybe_dragging_win |-> None, frames_len |-> 0, requested |-> {}]

\* d1 = DimRange::new(a.0, a.1) and d2 = DimRange::new(b.0, b.1)
DimRangeNew ==
    /\ last_call.op = "new"
    /\ last_call' = [last_call EXCEPT
           !.op = "DimRange::new",
           !.d1 = Some(DimRange_new(last_call.a[1], last_call.a[2])),
           !.d2 = Some(DimRange_new(last_call.b[1], last_call.b[2]))]
    /\ UNCHANGED <<engine_vars, drag_origin, widget>>

\* d1.overlaps_with(d2) and d2.overlaps_with(d1)
OverlapsWith ==
    /\ last_call.op = "DimRange::new"
    /\ last_call' = [last_call EXCEPT
           !.op = "overlaps_with",
           !.ret = overlaps_with(Unwrap(last_call.d1), Unwrap(last_call.d2)),
           !.ret_swapped = overlaps_with(Unwrap(last_call.d2), Unwrap(last_call.d1))]
    /\ UNCHANGED <<engine_vars, drag_origin, widget>>

NextDimRange == DimRangeNew \/ OverlapsWith

SpecDimRange == InitDimRange /\ [][NextDimRange]_vars

\* the length of what two ranges have in common; negative when they are apart
SharedLength(d1, d2) == Min(d1.upper, d2.upper) - Max(d1.lower, d2.lower)

\* C36: overlaps_with gives the same answer in both directions and is true
\* exactly when a.lower < b.upper and b.lower < a.upper: two non-empty ranges
\* overlap exactly when they share more than a point, identical non-empty
\* ranges overlap, and ranges that touch at an endpoint do not
C36_OverlapsWithIsStrict ==
    last_call.op = "overlaps_with" =>
        LET d1 == Unwrap(last_call.d1)
            d2 == Unwrap(last_call.d2)
        IN  /\ last_call.ret = last_call.ret_swapped
            /\ last_call.ret <=> (d1.lower < d2.upper /\ d2.lower < d1.upper)
            /\ (d1.lower < d1.upper /\ d2.lower < d2.upper) =>
                   (last_call.ret <=> SharedLength(d1, d2) > 0)
            /\ (d1 = d2 /\ d1.lower < d1.upper) => last_call.ret
            /\ (d1.upper = d2.lower \/ d2.upper = d1.lower) => ~last_call.ret

\* [1, 10] and [10, 20] touch at 10 and do not overlap
C36_Witness ==
    /\ last_call.op = "overlaps_with"
    /\ last_call.d1 = Some([lower |-> 1, upper |-> 10])
    /\ last_call.d2 = Some([lower |-> 10, upper |-> 20])
    /\ ~last_call.ret
    /\ ~last_call.ret_swapped

\* C37: DimRange::new(a, b) has lower = min(a, b) and upper = max(a, b), so
\* that lower <= upper and new(a, b) = new(b, a)
C37_DimRangeNewNormalises ==
    last_call.op = "DimRange::new" =>
        LET a == last_call.a[1]
            b == last_call.a[2]
            d == Unwrap(last_call.d1)
        IN  /\ d.lower \in {a, b} /\ d.lower <= a /\ d.lower <= b
            /\ d.upper \in {a, b} /\ d.upper >= a /\ d.upper >= b
            /\ d.lower <= d.upper
            /\ d = DimRange_new(b, a)

\* new(2, 1) is the range from 1 to 2
C37_Witness ==
    /\ last_call.op = "DimRange::new"
    /\ last_call.a = <<2, 1>>
    /\ last_call.d1 = Some([lower |-> 1, upper |-> 2])

----------------------------------------------------------------------------
(* SpecLost: windows that are hidden or swept while they are dragged.        *)

LostOffsets == {<<Lg(20), Lg(20)>>}

NextLost ==
    \/ NextId(MaxWins)
    \/ \E id \in AllocatedIds : EnsureInit(id, InitialStates)
    \/ \E id \in AllocatedIds : SetWinHidden(id)
    \/ \E id \in AllocatedIds : SetNeeded(id)
    \/ SweepUnneeded
    \/ \E id \in AllocatedIds : WinDragStart(id, {"TitleBarOrDragArea"})
    \/ WinDragUpdate(LostOffsets)
    \/ WinDragEnd

SpecLost == Init /\ [][NextLost]_vars

\* the dragged window of s is hidden or its slot is empty
DraggedWindowLost(s) ==
    /\ IsSome(s.maybe_dragging_window)
    /\ \/ ~IsSome(Slot(s, Unwrap(s.maybe_dragging_window).win_id))
       \/ Unwrap(Slot(s, Unwrap(s.maybe_dragging_window).win_id)).is_hidden

\* the rectangle the running drag found, on the device-pixel grid
DragStartRect(s) ==
    LET rect == Unwrap(drag_origin).rect
        h == s.hidpi_factor
    IN  Rect(PxToLg(RoundPx(rect.x, h), h), PxToLg(RoundPx(rect.y, h), h),
             PxToLg(RoundPx(rect.w, h), h), PxToLg(RoundPx(rect.h, h), h))

\* r is what win_drag_update returns when the dragged window id of s is lost:
\* false, with the drag ended, the z-order kept, a hidden window back at its
\* drag-start rectangle and nothing else changed
LostDragEnded(s, id, r) ==
    /\ ~r.ret
    /\ r.st.maybe_dragging_window = None
    /\ r.st.bottom_to_top_list = s.bottom_to_top_list
    /\ r.st.window_z_orders = s.window_z_orders
    /\ r.st = [s EXCEPT !.maybe_dragging_window = None,
                        !.window_states = r.st.window_states]
    /\ \A other \in 0..(Len(s.window_states) - 1) :
           other # id => Slot(r.st, other) = Slot(s, other)
    /\ Slot(r.st, id) =
           IF IsSome(Slot(s, id))
           THEN Some([Unwrap(Slot(s, id)) EXCEPT !.rect = DragStartRect(s)])
           ELSE None

\* C38: when the dragged window is hidden or its slot has been freed, the
\* next win_drag_update returns false, ends the drag, leaves the z-order as
\* it is and puts a hidden window back at its drag-start rectangle; without
\* a drag win_drag_update returns false and changes nothing, and win_drag_end
\* changes nothing
C38_LostDragIsDropped ==
    /\ DraggedWindowLost(St) =>
           \A offset \in LostOffsets \cup DragOffsets :
               LostDragEnded(St, DraggedId, win_drag_update(St, offset))
    /\ ~IsSome(maybe_dragging_window) =>
           /\ \A offset \in LostOffsets \cup DragOffsets :
                  win_drag_update(St, offset) = [st |-> St, ret |-> FALSE]
           /\ \A abort \in BOOLEAN : win_drag_end(St, abort) = St

\* window 0 was dragged away from (100, 100) and hidden; win_drag_update has
\* returned false, the drag is over and the window is back at (100, 100),
\* below window 1
C38_Witness ==
    /\ last_call.op = "win_drag_update"
    /\ ~last_call.ret
    /\ last_call.was_dragging = 0
    /\ last_call.changed
    /\ maybe_dragging_window = None
    /\ IsSome(Slot(St, 0))
    /\ Unwrap(Slot(St, 0)).is_hidden
    /\ Unwrap(Slot(St, 0)).rect.x = Lg(100)
    /\ Len(bottom_to_top_list) = 2
    /\ bottom_to_top_list[2] = 1

----------------------------------------------------------------------------
(* What sweep_unneeded leaves alone, under SpecLife *)

\* s2 is s with its unneeded windows freed and nothing else changed
OnlySlotsSwept(s, s2) ==
    /\ s2 = [s EXCEPT !.window_states = s2.window_states]
    /\ Len(s2.window_states) = Len(s.window_states)
    /\ \A id \in 0..(Len(s.window_states) - 1) :
           Slot(s2, id) =
               IF IsSome(Slot(s, id)) /\ ~Unwrap(Slot(s, id)).is_needed THEN None
               ELSE Slot(s, id)

\* C39: sweep_unneeded frees the unneeded slots and changes nothing else:
\* win_count, window_z_orders, bottom_to_top_list, the auto-position cursor
\* and the drag session are the same, so a freed id keeps its z-rank,
\* topmost_win() is the same window, freed or not, and a drag on a freed
\* window is still current
C39_SweepFreesSlotsOnly ==
    /\ OnlySlotsSwept(St, sweep_unneeded(St))
    /\ win_count(sweep_unneeded(St)) = win_count(St)
    /\ topmost_win(sweep_unneeded(St)) = topmost_win(St)
    /\ current_dragging_win(sweep_unneeded(St)) = current_dragging_win(St)
    /\ \A id \in AllocatedIds :
           win_z_order(sweep_unneeded(St), id) = win_z_order(St, id)

\* window 1, topmost of two and being dragged, has been swept: topmost_win()
\* and the drag session still name it
C39_Witness ==
    /\ last_call.op = "sweep_unneeded"
    /\ last_call.changed
    /\ Len(window_states) = 2
    /\ Slot(St, 1) = None
    /\ IsSome(Slot(St, 0))
    /\ topmost_win(St) = Some(1)
    /\ DraggedId = 1

----------------------------------------------------------------------------
(* SpecGesture: the frame protocol in an area that ensure_all_win_in_area    *)
(* has to pull the windows back into.                                         *)

GestureDimensions == {<<<<Lg(200), Lg(150)>>, 1>>}

\* a press on a window's frame, a drag by (20, 0) that began at (150, 110), a
\* release, or no event
GestureEvents ==
    {NoEvent, [kind |-> "Release"]}
    \cup {[kind |-> "Press", win_id |-> id] : id \in 0..(MaxWins - 1)}
    \cup {[kind |-> "Drag", origin |-> <<Lg(150), Lg(110)>>, delta |-> <<Lg(20), 0>>]}

\* the windows are shown; one that is not requested for a frame is swept
GestureBuilders == {builder \in Builders : ~builder.is_hidden}

NextGesture ==
    \/ NextId(MaxWins)
    \/ Update(GestureDimensions, GestureEvents)
    \/ \E id \in AllocatedIds : MakeWindow(id, GestureBuilders)

SpecGesture == Init /\ [][NextGesture]_vars

\* one pass of update's loop over the UI events: the match on the event
handle_event(s2, w1, event) ==
    CASE event.kind = "Press" -> on_press(s2, w1, event)
      [] event.kind = "Drag" -> on_drag(s2, w1, event)
      [] event.kind = "Release" -> on_release(s2, w1, event)
      [] OTHER -> [st |-> s2, w |-> w1, origin |-> None]

\* the events a frame can bring: a press is on an existing frame
EventsFor(w) ==
    {event \in GestureEvents : event.kind = "Press" => event.win_id < w.frames_len}

\* the widget holds Some(true) exactly when the engine has a drag session
GestureAgrees(s, w) ==
    (w.maybe_dragging_win = Some(TRUE)) <=> IsSome(current_dragging_win(s))

\* r is the result of handling event in (s, w): the widget and the engine
\* agree, a gesture that is not a window drag stays one until a release, and
\* a release ends the gesture and the drag
EventHandled(s, w, event, r) ==
    \/ r.st.panicked
    \/ /\ GestureAgrees(r.st, r.w)
       /\ (w.maybe_dragging_win = Some(FALSE) /\ event.kind # "Release") =>
              /\ r.w.maybe_dragging_win = Some(FALSE)
              /\ current_dragging_win(r.st) = None
       /\ event.kind = "Release" =>
              /\ r.w.maybe_dragging_win = None
              /\ current_dragging_win(r.st) = None

\* two events in a row
EventsHandled(s, w, event, r) ==
    /\ EventHandled(s, w, event, r)
    /\ r.st.panicked \/ \A next \in EventsFor(w) :
           EventHandled(r.st, r.w, next, handle_event(r.st, r.w, next))

\* f is what update returns when its event left r: the windows are pulled
\* into the area unless the widget holds Some(true)
ClampedUnlessDragging(r, f) ==
    \/ f.st.panicked
    \/ /\ f.w = r.w
       /\ f.st = set_all_needed(IF r.w.maybe_dragging_win = Some(TRUE) THEN r.st
                                ELSE ensure_all_win_in_area(r.st), FALSE)
       /\ f.w.maybe_dragging_win # Some(TRUE) => ensure_all_win_in_area(f.st) = f.st

FrameHandled(s2, w1, event) ==
    /\ EventsHandled(s2, w1, event, handle_event(s2, w1, event))
    /\ ClampedUnlessDragging(handle_event(s2, w1, event), update_event(s2, w1, event))

\* C40: in update, after each UI event, the widget's maybe_dragging_win is
\* Some(true) exactly when the engine has a drag session; after a gesture is
\* classified Some(false) no window drag starts before a release; a release
\* leaves maybe_dragging_win None and no drag session; and
\* ensure_all_win_in_area runs at the end of update exactly when
\* maybe_dragging_win is not Some(true)
C40_GestureMatchesEngine ==
    /\ GestureAgrees(St, WidgetState)
    /\ \A dims \in GestureDimensions :
           \A event \in EventsFor([frames_len |-> win_count(St)]) :
               FrameHandled(set_dimensions(sweep_unneeded(St), dims[1], dims[2]),
                            [WidgetState EXCEPT !.frames_len = win_count(St)],
                            event)

\* an update has dragged window 0 in the 200 x 150 area: the widget holds
\* Some(true), the engine drags window 0, and the window is left outside the
\* range that ensure_all_win_in_area would pull it into
C40_Witness ==
    /\ last_call.op = "update"
    /\ last_call.ht = "Drag"
    /\ area_size = <<Lg(200), Lg(150)>>
    /\ widget.maybe_dragging_win = Some(TRUE)
    /\ DraggedId = 0
    /\ ensure_all_win_in_area(St) # St

====
